---------------------------- MODULE Spec2Model ----------------------------
(***************************************************************************)
(* A model of parsley-csv (src/src/parser.rs): the value tokenizer and     *)
(* normalizer, the replace() rewriter, the row extractor and the schema    *)
(* extractor.                                                              *)
(*                                                                         *)
(* Text is modelled as a sequence of characters, each character a string   *)
(* of length one, so that scanning, slicing and pattern matching are done  *)
(* position by position as the Rust code does them.  The back-quote        *)
(* character cannot be written inside a TLA+ string; it is the atom BQ.    *)
(***************************************************************************)
EXTENDS Naturals, Integers, Sequences, FiniteSets, TLC

VARIABLES
    pc,             \* position of the running function
    \* parse_values (parser.rs:118-169)
    values_str,     \* its argument
    i,              \* loop index (1-based here, 0-based in the source)
    in_quotes,
    quote_char,
    current_value,
    values,         \* the raw values pushed so far
    cleaned,        \* what parse_values returns (or Panic)
    \* clean_value called on its own (parser.rs:172-186)
    val,
    cleaned_val,
    \* handle_replace_function (parser.rs:101-115)
    payload,        \* its argument
    rewritten,      \* its result
    rewritten_again, \* its result on its own result
    \* the dump file
    dump,           \* the statements the dump text was written from
    content,        \* the dump text
    \* extract_insert_values (parser.rs:66-98)
    table_name,
    pattern,        \* the index into patterns of the loop at parser.rs:77
    rows,
    compile_failed, \* the patterns Regex::new has rejected so far
    result,         \* what extract_insert_values returns
    \* parse_sql_file (parser.rs:9-34)
    cursor,         \* where captures_iter looks for the next match
    captured,       \* the (name, body) captures of the matches so far
    tables,
    \* parse_table_columns called on its own (parser.rs:37-63)
    body,           \* the definitions and clauses the text was written from
    columns_text,
    columns,
    \* parse_date_value (date_filter.rs:89-132)
    value,          \* its argument
    format,         \* the index into formats of the loop that is running
    strategy,       \* the attempt that returned the date
    date,           \* what parse_date_value returns
    \* apply_date_filter (date_filter.rs:53-86)
    headers,
    input_rows,     \* its argument rows
    filter,
    column_index,
    row_index,      \* the row the iterator is at
    filtered,
    filter_result,  \* what apply_date_filter returns
    \* parse_date_filter (date_filter.rs:7-50)
    args,
    today,          \* chrono::Local::now().date_naive()
    start_date,
    end_date,
    date_filter,    \* what parse_date_filter returns
    \* main (main.rs:25-122)
    run_filter,     \* the Option<DateFilter> of main.rs:51
    tasks,          \* the closure of par_iter (main.rs:66-102), one per table
    files,          \* the files of the working directory
    csv_files,      \* what collect() returns
    exit            \* what main returns

valuesVars == <<values_str, i, in_quotes, quote_char, current_value, values, cleaned>>
cleanVars  == <<val, cleaned_val>>
replaceVars == <<payload, rewritten, rewritten_again>>
dumpVars == <<dump, content>>
insertVars == <<table_name, pattern, rows, compile_failed, result>>
schemaVars == <<cursor, captured, tables>>
columnsVars == <<body, columns_text, columns>>
dateVars == <<value, format, strategy, date>>
filterVars == <<headers, input_rows, filter, column_index, row_index, filtered, filter_result>>
argsVars == <<args, today, start_date, end_date, date_filter>>
runVars == <<run_filter, tasks, files, csv_files, exit>>
vars == <<pc, valuesVars, cleanVars, replaceVars, dumpVars, insertVars, schemaVars, columnsVars,
          dateVars, filterVars, argsVars, runVars>>

\* what the actions of one function leave alone
notValues ==
    <<cleanVars, replaceVars, dumpVars, insertVars, schemaVars, columnsVars,
      dateVars, filterVars, argsVars, runVars>>
notClean ==
    <<valuesVars, replaceVars, dumpVars, insertVars, schemaVars, columnsVars,
      dateVars, filterVars, argsVars, runVars>>
notReplace ==
    <<valuesVars, cleanVars, dumpVars, insertVars, schemaVars, columnsVars,
      dateVars, filterVars, argsVars, runVars>>
notInsert ==
    <<valuesVars, cleanVars, replaceVars, dumpVars, schemaVars, columnsVars,
      dateVars, filterVars, argsVars, runVars>>
notSchema ==
    <<valuesVars, cleanVars, replaceVars, dumpVars, insertVars, columnsVars,
      dateVars, filterVars, argsVars, runVars>>
notDate ==
    <<valuesVars, cleanVars, replaceVars, dumpVars, insertVars, schemaVars, columnsVars,
      filterVars, argsVars, runVars>>
notFilter ==
    <<valuesVars, cleanVars, replaceVars, dumpVars, insertVars, schemaVars, columnsVars,
      dateVars, argsVars, runVars>>
notArgs ==
    <<valuesVars, cleanVars, replaceVars, dumpVars, insertVars, schemaVars, columnsVars,
      dateVars, filterVars, runVars>>
notRun ==
    <<valuesVars, cleanVars, replaceVars, insertVars, cursor, captured, columnsVars,
      dateVars, filterVars, argsVars>>
notColumns ==
    <<valuesVars, cleanVars, replaceVars, dumpVars, insertVars, schemaVars,
      dateVars, filterVars, argsVars, runVars>>

-----------------------------------------------------------------------------
(* Bounds of the model *)

\* longest payload enumerated for parse_values
MaxLen == 4
\* longest value enumerated for clean_value
MaxValLen == 4
\* most pieces of an enumerated payload of handle_replace_function
MaxPieces == 4
\* most statements of an enumerated dump
MaxStmts == 2
\* most CREATE TABLE statements of an enumerated dump
MaxCreates == 2
\* most definitions and clauses of an enumerated CREATE TABLE body
MaxItems == 3
\* most tables of the dump of a whole run
MaxTables == 2
\* most rows handed to apply_date_filter
MaxRows == 2

-----------------------------------------------------------------------------
(* Characters *)

SQ == "'"
DQ == "\""
BQ == "bq"
NL == "\n"
BS == "\\"

\* char::is_whitespace, restricted to the characters of the model
WhiteSpace == {" ", NL}

\* a value no variable holds before the function that sets it has run
None == <<"<none>">>
\* the outcome of a Rust panic (an out-of-range slice), where a value, a row
\* or a list of rows was expected
Panic == <<"<panic>">>
PanicRow == <<Panic>>
PanicRows == <<PanicRow>>

Min(S) == CHOOSE x \in S : \A y \in S : x <= y
Range(s) == {s[n] : n \in 1 .. Len(s)}

\* all sequences over S of length at most n
RECURSIVE SeqsUpTo(_, _)
SeqsUpTo(S, n) ==
    IF n = 0 THEN {<<>>}
    ELSE LET shorter == SeqsUpTo(S, n - 1)
         IN  shorter \cup {Append(s, c) : s \in {t \in shorter : Len(t) = n - 1}, c \in S}

-----------------------------------------------------------------------------
(* The str methods the parser uses *)

RECURSIVE TrimStart(_)
TrimStart(s) ==
    IF s = <<>> THEN s
    ELSE IF s[1] \in WhiteSpace THEN TrimStart(Tail(s)) ELSE s

RECURSIVE TrimEnd(_)
TrimEnd(s) ==
    IF s = <<>> THEN s
    ELSE IF s[Len(s)] \in WhiteSpace THEN TrimEnd(SubSeq(s, 1, Len(s) - 1)) ELSE s

\* str::trim
Trim(s) == TrimEnd(TrimStart(s))

\* str::starts_with / str::ends_with
StartsWith(s, p) == Len(s) >= Len(p) /\ SubSeq(s, 1, Len(p)) = p
EndsWith(s, p) == Len(s) >= Len(p) /\ SubSeq(s, Len(s) - Len(p) + 1, Len(s)) = p

\* the first position >= from at which p occurs in s, 0 when there is none
Find(s, p, from) ==
    LET at == {k \in from .. (Len(s) - Len(p) + 1) : SubSeq(s, k, k + Len(p) - 1) = p}
    IN  IF at = {} THEN 0 ELSE Min(at)

\* str::contains
Contains(s, p) == Find(s, p, 1) # 0

\* str::replace: every non-overlapping occurrence, left to right
RECURSIVE ReplaceAll(_, _, _)
ReplaceAll(s, from, to) ==
    LET k == Find(s, from, 1)
    IN  IF k = 0 THEN s
        ELSE SubSeq(s, 1, k - 1) \o to
             \o ReplaceAll(SubSeq(s, k + Len(from), Len(s)), from, to)

-----------------------------------------------------------------------------
(* clean_value, parser.rs:172-186 *)

\* &val[1..val.len()-1]: a slice whose start is past its end panics
Inner(v) == IF Len(v) < 2 THEN Panic ELSE SubSeq(v, 2, Len(v) - 1)

clean_value(v0) ==
    LET v == Trim(v0)
    IN  IF \/ (StartsWith(v, <<SQ>>) /\ EndsWith(v, <<SQ>>))
           \/ (StartsWith(v, <<DQ>>) /\ EndsWith(v, <<DQ>>))
        THEN LET inner == Inner(v)
             IN  IF inner = Panic THEN Panic
                 ELSE ReplaceAll(ReplaceAll(inner, <<SQ, SQ>>, <<SQ>>), <<DQ, DQ>>, <<DQ>>)
        ELSE v

-----------------------------------------------------------------------------
(* parse_values, parser.rs:118-169 *)

\* ScanChar with a plausible slip: inside a quote, either quote character is
\* taken for the active one (quote_char is not consulted)
ScanCharAnyQuoteCloses(chars, st) ==
    LET c == chars[st.i]
    IN  IF ~st.in_quotes
        THEN IF c = SQ \/ c = DQ
             THEN [st EXCEPT !.in_quotes = TRUE, !.quote_char = c,
                             !.current_value = Append(@, c), !.i = @ + 1]
             ELSE IF c = ","
             THEN [st EXCEPT !.values = Append(@, Trim(st.current_value)),
                             !.current_value = <<>>, !.i = @ + 1]
             ELSE [st EXCEPT !.current_value = Append(@, c), !.i = @ + 1]
        ELSE IF c = SQ \/ c = DQ
             THEN IF st.i + 1 <= Len(chars) /\ chars[st.i + 1] = c
                  THEN [st EXCEPT !.current_value = @ \o <<c, c>>, !.i = @ + 2]
                  ELSE [st EXCEPT !.in_quotes = FALSE, !.quote_char = " ",
                                  !.current_value = Append(@, c), !.i = @ + 1]
             ELSE [st EXCEPT !.current_value = Append(@, c), !.i = @ + 1]

\* one iteration of the while loop (parser.rs:126-158) on the scanner state st
ScanChar(chars, st) ==
    LET c == chars[st.i]
    IN  IF ~st.in_quotes
        THEN IF c = SQ \/ c = DQ
             THEN [st EXCEPT !.in_quotes = TRUE, !.quote_char = c,
                             !.current_value = Append(@, c), !.i = @ + 1]
             ELSE IF c = ","
             THEN [st EXCEPT !.values = Append(@, Trim(st.current_value)),
                             !.current_value = <<>>, !.i = @ + 1]
             ELSE [st EXCEPT !.current_value = Append(@, c), !.i = @ + 1]
        ELSE IF c = st.quote_char
             THEN IF st.i + 1 <= Len(chars) /\ chars[st.i + 1] = st.quote_char
                  THEN [st EXCEPT !.current_value = @ \o <<c, c>>, !.i = @ + 2]
                  ELSE [st EXCEPT !.in_quotes = FALSE, !.quote_char = " ",
                                  !.current_value = Append(@, c), !.i = @ + 1]
             ELSE [st EXCEPT !.current_value = Append(@, c), !.i = @ + 1]

\* "Add the last value" (parser.rs:160-163)
PushLast(cur, vs) == IF cur # <<>> THEN Append(vs, Trim(cur)) ELSE vs

\* "Clean up values" (parser.rs:165-168): one panicking clean_value unwinds the call
CleanAll(vs) ==
    IF \E k \in 1 .. Len(vs) : clean_value(vs[k]) = Panic THEN PanicRow
    ELSE [k \in 1 .. Len(vs) |-> clean_value(vs[k])]

\* the whole of parse_values as a function of its argument
RECURSIVE ScanFrom(_, _)
ScanFrom(chars, st) == IF st.i > Len(chars) THEN st ELSE ScanFrom(chars, ScanChar(chars, st))

ScanStart == [i |-> 1, in_quotes |-> FALSE, quote_char |-> " ",
              current_value |-> <<>>, values |-> <<>>]

RawValues(chars) ==
    LET st == ScanFrom(chars, ScanStart) IN PushLast(st.current_value, st.values)

parse_values(chars) == CleanAll(RawValues(chars))

-----------------------------------------------------------------------------
(* handle_replace_function, parser.rs:101-115 *)

kwReplace == <<"r","e","p","l","a","c","e","(">>

\* the match of (?s)replace\('(.*?)',.*?\) that starts at s, if there is one:
\* the lazy capture ends at the first quote-comma after the opening quote, the
\* lazy tail at the first closing parenthesis after that comma
ReplaceMatchAt(chars, s) ==
    LET j == Find(chars, <<SQ, ",">>, s + 9)
        e == IF j = 0 THEN 0 ELSE Find(chars, <<")">>, j + 2)
    IN  IF StartsWith(SubSeq(chars, s, Len(chars)), kwReplace \o <<SQ>>) /\ e # 0
        THEN [found |-> TRUE, start |-> s, cap |-> SubSeq(chars, s + 9, j - 1), end |-> e]
        ELSE [found |-> FALSE]

\* the leftmost match at or after from
NextReplaceMatch(chars, from) ==
    LET at == {s \in from .. Len(chars) : ReplaceMatchAt(chars, s).found}
    IN  IF at = {} THEN [found |-> FALSE] ELSE ReplaceMatchAt(chars, Min(at))

\* the closure given to replace_all (parser.rs:108-114)
Replacement(cap) ==
    <<SQ>> \o ReplaceAll(ReplaceAll(cap, <<BS, SQ>>, <<SQ>>), <<BS, "n">>, <<NL>>) \o <<SQ>>

\* Regex::replace_all: the non-overlapping matches, left to right
RECURSIVE ReplaceAllMatches(_, _)
ReplaceAllMatches(chars, from) ==
    LET m == NextReplaceMatch(chars, from)
    IN  IF ~m.found THEN SubSeq(chars, from, Len(chars))
        ELSE SubSeq(chars, from, m.start - 1) \o Replacement(m.cap)
             \o ReplaceAllMatches(chars, m.end + 1)

handle_replace_function(chars) ==
    IF ~Contains(chars, kwReplace) THEN chars ELSE ReplaceAllMatches(chars, 1)


-----------------------------------------------------------------------------
(* extract_insert_values, parser.rs:66-98 *)

kwInsertInto == <<"I","N","S","E","R","T"," ","I","N","T","O"," ">>
kwValues == <<" ","V","A","L","U","E","S","(">>

\* the literal text each pattern of parser.rs:71-75 matches before the
\* payload, in the order of the vector; regex::escape makes the name literal
InsertPatterns(name) ==
    << kwInsertInto \o <<DQ>> \o name \o <<DQ>> \o kwValues,
       kwInsertInto \o name \o kwValues,
       kwInsertInto \o <<BQ>> \o name \o <<BQ>> \o kwValues >>

\* captures_iter of (?s)<prefix>(.*?)\); from position from on: the payload of
\* each non-overlapping match, the lazy capture ending at the first ");"
RECURSIVE InsertPayloads(_, _, _)
InsertPayloads(text, prefix, from) ==
    LET s == Find(text, prefix, from)
        e == IF s = 0 THEN 0 ELSE Find(text, <<")", ";">>, s + Len(prefix))
    IN  IF e = 0 THEN <<>>
        ELSE <<SubSeq(text, s + Len(prefix), e - 1)>> \o InsertPayloads(text, prefix, e + 2)

\* the body of the inner for loop (parser.rs:81-86) over all matches
RowsOf(payloads) ==
    LET rs == [n \in 1 .. Len(payloads) |-> parse_values(handle_replace_function(payloads[n]))]
    IN  IF \E n \in 1 .. Len(rs) : rs[n] = PanicRow THEN PanicRows ELSE rs


-----------------------------------------------------------------------------
(* Character classes of parse_sql_file and parse_table_columns, restricted *)
(* to ASCII                                                                *)

LowerCase == <<"a", "b", "c", "d", "e", "f", "g", "h", "i", "j", "k", "l", "m",
               "n", "o", "p", "q", "r", "s", "t", "u", "v", "w", "x", "y", "z">>
UpperCase == <<"A", "B", "C", "D", "E", "F", "G", "H", "I", "J", "K", "L", "M",
               "N", "O", "P", "Q", "R", "S", "T", "U", "V", "W", "X", "Y", "Z">>
Digits == {"0", "1", "2", "3", "4", "5", "6", "7", "8", "9"}
Letters == {LowerCase[n] : n \in 1 .. 26} \cup {UpperCase[n] : n \in 1 .. 26}

\* char::is_alphanumeric
IsAlphanumeric(c) == c \in Letters \cup Digits
\* the regex class \w
IsWord(c) == IsAlphanumeric(c) \/ c = "_"

\* the upper-case form of a letter: how (?i) compares letters
ToUpper(c) ==
    IF \E n \in 1 .. 26 : LowerCase[n] = c
    THEN UpperCase[CHOOSE n \in 1 .. 26 : LowerCase[n] = c]
    ELSE c

\* the first position >= k of text whose character is not in S (Len + 1 if none)
RECURSIVE SkipWhile(_, _, _)
SkipWhile(text, k, S) ==
    IF k > Len(text) \/ text[k] \notin S THEN k ELSE SkipWhile(text, k + 1, S)

-----------------------------------------------------------------------------
(* parse_table_columns, parser.rs:37-63 *)

\* the pieces of s between the occurrences of the character sep (str::split)
RECURSIVE Split(_, _)
Split(s, sep) ==
    LET at == {k \in 1 .. Len(s) : s[k] = sep}
    IN  IF at = {} THEN <<s>>
        ELSE <<SubSeq(s, 1, Min(at) - 1)>> \o Split(SubSeq(s, Min(at) + 1, Len(s)), sep)

\* str::lines: the pieces between line feeds, without a last empty one
Lines(s) ==
    LET ps == Split(s, NL)
    IN  IF ps[Len(ps)] = <<>> THEN SubSeq(ps, 1, Len(ps) - 1) ELSE ps

\* .map(|l| l.trim()).collect().join(" ") (parser.rs:41-44)
RECURSIVE JoinTrimmed(_)
JoinTrimmed(ls) ==
    IF ls = <<>> THEN <<>>
    ELSE IF Len(ls) = 1 THEN Trim(ls[1])
    ELSE Trim(ls[1]) \o <<" ">> \o JoinTrimmed(Tail(ls))

\* part.split_whitespace().next() on a trimmed, non-empty part
FirstWord(part) == SubSeq(part, 1, SkipWhile(part, 1, {c \in Range(part) : c \notin WhiteSpace}) - 1)

kwForeignKey == <<"F","O","R","E","I","G","N"," ","K","E","Y">>
kwPrimaryKey == <<"P","R","I","M","A","R","Y"," ","K","E","Y">>

\* the test without its two starts_with conditions
IsColumnPartNoKeySkip(part) == part # <<>>

\* the test of parser.rs:49-51
IsColumnPart(part) ==
    part # <<>> /\ ~StartsWith(part, kwForeignKey) /\ ~StartsWith(part, kwPrimaryKey)

\* the body of the for loop (parser.rs:48-59) on one part: the names it pushes
ColumnOfPart(part0) ==
    LET part == Trim(part0)
        col_name == FirstWord(part)
    IN  IF IsColumnPart(part) /\ col_name # <<>>
           /\ \A n \in 1 .. Len(col_name) : IsAlphanumeric(col_name[n]) \/ col_name[n] = "_"
        THEN <<col_name>>
        ELSE <<>>

RECURSIVE ColumnsOfParts(_)
ColumnsOfParts(parts) ==
    IF parts = <<>> THEN <<>> ELSE ColumnOfPart(parts[1]) \o ColumnsOfParts(Tail(parts))

parse_table_columns(text) == ColumnsOfParts(Split(JoinTrimmed(Lines(text)), ","))

-----------------------------------------------------------------------------
(* parse_sql_file, parser.rs:9-34 (the text already read) *)

kwCreateTable == <<"C","R","E","A","T","E"," ","T","A","B","L","E">>

\* the match of (?i)(?s)CREATE TABLE\s+(\w+)\s*\((.*?)\)(?:\s|;) that starts
\* at s, if there is one
CreateMatchAt(text, s) ==
    LET kwEnd == s + Len(kwCreateTable)
        nameStart == SkipWhile(text, kwEnd, WhiteSpace)
        nameEnd == SkipWhile(text, nameStart, {c \in Range(text) : IsWord(c)})
        paren == SkipWhile(text, nameEnd, WhiteSpace)
        closes == {k \in (paren + 1) .. (Len(text) - 1) :
                      text[k] = ")" /\ text[k + 1] \in WhiteSpace \cup {";"}}
    IN  IF /\ kwEnd - 1 <= Len(text)
           /\ \A n \in 1 .. Len(kwCreateTable) : ToUpper(text[s + n - 1]) = kwCreateTable[n]
           /\ nameStart > kwEnd
           /\ nameEnd > nameStart
           /\ paren <= Len(text) /\ text[paren] = "("
           /\ closes # {}
        THEN [found |-> TRUE, name |-> SubSeq(text, nameStart, nameEnd - 1),
              body |-> SubSeq(text, paren + 1, Min(closes) - 1), end |-> Min(closes) + 1]
        ELSE [found |-> FALSE]

\* captures_iter: the leftmost match at or after from
NextCreateMatch(text, from) ==
    LET at == {s \in from .. Len(text) : CreateMatchAt(text, s).found}
    IN  IF at = {} THEN [found |-> FALSE] ELSE CreateMatchAt(text, Min(at))

\* the body of the for loop without the test of parser.rs:23
PushTableAlways(tbls, name, cols) == Append(tbls, [name |-> name, columns |-> cols])

\* the body of the for loop (parser.rs:19-30): the tables after one match
PushTable(tbls, name, cols) ==
    IF cols # <<>> THEN Append(tbls, [name |-> name, columns |-> cols]) ELSE tbls

\* the whole loop of parser.rs:18-31 as a function of the text
RECURSIVE TablesFrom(_, _, _)
TablesFrom(text, from, tbls) ==
    LET m == NextCreateMatch(text, from)
    IN  IF ~m.found THEN tbls
        ELSE TablesFrom(text, m.end + 1, PushTable(tbls, m.name, parse_table_columns(m.body)))


-----------------------------------------------------------------------------
(* Calendar dates (chrono::NaiveDate).  A date is the number of days from   *)
(* 1970-01-01, so that dates compare as NaiveDate values do.                *)

IsLeap(y) == y % 4 = 0 /\ (y % 100 # 0 \/ y % 400 = 0)

DaysInMonth(y, m) ==
    IF m = 2 THEN (IF IsLeap(y) THEN 29 ELSE 28)
    ELSE IF m \in {4, 6, 9, 11} THEN 30 ELSE 31

\* the day number of a date of the proleptic Gregorian calendar
DaysFromCivil(y, m, d) ==
    LET yy == IF m <= 2 THEN y - 1 ELSE y
        era == yy \div 400
        yoe == yy - era * 400
        doy == (153 * ((m + 9) % 12) + 2) \div 5 + d - 1
        doe == yoe * 365 + yoe \div 4 - yoe \div 100 + doy
    IN  era * 146097 + doe - 719468

\* the years NaiveDate can hold (NaiveDate::MIN, NaiveDate::MAX)
MinYear == -262143
MaxYear == 262142
MinDays == DaysFromCivil(MinYear, 1, 1)
MaxDays == DaysFromCivil(MaxYear, 12, 31)

NoDate == [some |-> FALSE]
SomeDate(days) == [some |-> TRUE, days |-> days]

\* NaiveDate::from_ymd_opt
from_ymd_opt(y, m, d) ==
    IF /\ y >= MinYear /\ y <= MaxYear
       /\ m >= 1 /\ m <= 12
       /\ d >= 1 /\ d <= DaysInMonth(y, m)
    THEN SomeDate(DaysFromCivil(y, m, d))
    ELSE NoDate

-----------------------------------------------------------------------------
(* chrono's strftime parser (chrono::format::parse), for the items the      *)
(* formats of date_filter.rs use                                            *)

DigitChars == <<"0", "1", "2", "3", "4", "5", "6", "7", "8", "9">>
DigitVal(c) == (CHOOSE n \in 1 .. 10 : DigitChars[n] = c) - 1

\* the value of a run of at most nine digits
RECURSIVE NumberOf(_)
NumberOf(ds) == IF ds = <<>> THEN 0 ELSE NumberOf(SubSeq(ds, 1, Len(ds) - 1)) * 10 + DigitVal(ds[Len(ds)])

Num(field, width) == [t |-> "num", field |-> field, width |-> width]
Lit(c) == [t |-> "lit", c |-> c]
Sp == [t |-> "space"]
Frac == [t |-> "frac"]

\* the fields of chrono::format::Parsed that these items set
Unset == -1
EmptyParsed ==
    [year |-> Unset, month |-> Unset, day |-> Unset,
     hour |-> Unset, minute |-> Unset, second |-> Unset, year_set |-> FALSE]

\* Parsed::set_month and the like: the range a field accepts
InFieldRange(field, v) ==
    CASE field = "month" -> v >= 1 /\ v <= 12
      [] field = "day" -> v >= 1 /\ v <= 31
      [] field = "hour" -> v >= 0 /\ v <= 23
      [] field = "minute" -> v >= 0 /\ v <= 59
      [] field = "second" -> v >= 0 /\ v <= 60
      [] OTHER -> TRUE

ParseFailed == [ok |-> FALSE]

\* parse(): the items consumed one after the other from position k of s;
\* what is left at the end of the items makes the parse fail (TooLong)
RECURSIVE ParseItems(_, _, _, _)
ParseItems(s, k, items, parsed) ==
    IF items = <<>>
    THEN IF k > Len(s) THEN [ok |-> TRUE, parsed |-> parsed] ELSE ParseFailed
    ELSE LET it == items[1]
             rest == Tail(items)
         IN  CASE it.t = "lit" ->
                    IF k <= Len(s) /\ s[k] = it.c
                    THEN ParseItems(s, k + 1, rest, parsed) ELSE ParseFailed
               [] it.t = "space" -> ParseItems(s, SkipWhile(s, k, WhiteSpace), rest, parsed)
               [] it.t = "frac" ->
                    IF k <= Len(s) /\ s[k] = "."
                    THEN LET e == SkipWhile(s, k + 1, Digits)
                         IN  IF e > k + 1 THEN ParseItems(s, e, rest, parsed) ELSE ParseFailed
                    ELSE ParseItems(s, k, rest, parsed)
               [] it.t = "num" ->
                    LET b == SkipWhile(s, k, WhiteSpace)
                        signed == it.field = "year" /\ b <= Len(s) /\ s[b] \in {"+", "-"}
                        d1 == IF signed THEN b + 1 ELSE b
                        run == SkipWhile(s, d1, Digits)
                        e == IF signed THEN Min({run, d1 + 6}) ELSE Min({run, d1 + it.width})
                        v == NumberOf(SubSeq(s, d1, e - 1))
                        sv == IF signed /\ s[b] = "-" THEN 0 - v ELSE v
                    IN  IF e = d1 \/ (signed /\ run > d1 + 6) \/ ~InFieldRange(it.field, sv)
                        THEN ParseFailed
                        ELSE ParseItems(s, e, rest,
                                        IF it.field = "year"
                                        THEN [parsed EXCEPT !.year = sv, !.year_set = TRUE]
                                        ELSE [parsed EXCEPT ![it.field] = sv])

\* Parsed::to_naive_date
to_naive_date(parsed) ==
    IF parsed.year_set /\ parsed.month # Unset /\ parsed.day # Unset
    THEN from_ymd_opt(parsed.year, parsed.month, parsed.day)
    ELSE NoDate

\* Parsed::to_naive_time succeeds: hour and minute are needed, second is not
HasTime(parsed) == parsed.hour # Unset /\ parsed.minute # Unset

\* NaiveDate::parse_from_str(value, fmt)
NaiveDate_parse_from_str(s, fmt) ==
    LET r == ParseItems(s, 1, fmt, EmptyParsed)
    IN  IF r.ok THEN to_naive_date(r.parsed) ELSE NoDate

\* NaiveDateTime::parse_from_str(value, fmt), then .date()
NaiveDateTime_parse_from_str(s, fmt) ==
    LET r == ParseItems(s, 1, fmt, EmptyParsed)
    IN  IF r.ok /\ HasTime(r.parsed) THEN to_naive_date(r.parsed) ELSE NoDate

\* DateTime::<FixedOffset>::parse_from_rfc3339(value), then .date_naive():
\* YYYY-MM-DDTHH:MM:SS, an optional fraction, then Z or +HH:MM or -HH:MM,
\* every number of fixed width; the date is the one written
Fixed(s, k, n) == k + n - 1 <= Len(s) /\ \A j \in k .. (k + n - 1) : s[j] \in Digits
FixedVal(s, k, n) == NumberOf(SubSeq(s, k, k + n - 1))
At(s, k, S) == k <= Len(s) /\ s[k] \in S

parse_from_rfc3339(s) ==
    LET fracEnd == IF At(s, 20, {"."}) THEN SkipWhile(s, 21, Digits) ELSE 20
        z == fracEnd
    IN  IF /\ Fixed(s, 1, 4) /\ At(s, 5, {"-"}) /\ Fixed(s, 6, 2) /\ At(s, 8, {"-"})
           /\ Fixed(s, 9, 2) /\ At(s, 11, {"T", "t"})
           /\ Fixed(s, 12, 2) /\ At(s, 14, {":"}) /\ Fixed(s, 15, 2) /\ At(s, 17, {":"})
           /\ Fixed(s, 18, 2)
           /\ (At(s, 20, {"."}) => fracEnd > 21)
           /\ \/ At(s, z, {"Z", "z"}) /\ Len(s) = z
              \/ /\ At(s, z, {"+", "-"}) /\ Fixed(s, z + 1, 2) /\ At(s, z + 3, {":"})
                 /\ Fixed(s, z + 4, 2) /\ Len(s) = z + 5
                 /\ FixedVal(s, z + 1, 2) <= 23 /\ FixedVal(s, z + 4, 2) <= 59
           /\ FixedVal(s, 12, 2) <= 23 /\ FixedVal(s, 15, 2) <= 59 /\ FixedVal(s, 18, 2) <= 60
        THEN from_ymd_opt(FixedVal(s, 1, 4), FixedVal(s, 6, 2), FixedVal(s, 9, 2))
        ELSE NoDate

\* the formats vector (date_filter.rs:96-104)
fmtYmd == <<Num("year", 4), Lit("-"), Num("month", 2), Lit("-"), Num("day", 2)>>
fmtHms == <<Num("hour", 2), Lit(":"), Num("minute", 2), Lit(":"), Num("second", 2)>>
fmtMdy == <<Num("month", 2), Lit("/"), Num("day", 2), Lit("/"), Num("year", 4)>>
fmtDmy == <<Num("day", 2), Lit("/"), Num("month", 2), Lit("/"), Num("year", 4)>>

\* the vector with the two slash formats the other way round
formatsDayFirst ==
    << fmtYmd,
       fmtYmd \o <<Sp>> \o fmtHms,
       fmtYmd \o <<Lit("T")>> \o fmtHms,
       fmtYmd \o <<Sp>> \o fmtHms \o <<Frac>>,
       fmtYmd \o <<Lit("T")>> \o fmtHms \o <<Frac>>,
       fmtDmy,
       fmtMdy >>

formats ==
    << fmtYmd,
       fmtYmd \o <<Sp>> \o fmtHms,
       fmtYmd \o <<Lit("T")>> \o fmtHms,
       fmtYmd \o <<Sp>> \o fmtHms \o <<Frac>>,
       fmtYmd \o <<Lit("T")>> \o fmtHms \o <<Frac>>,
       fmtMdy,
       fmtDmy >>

\* the formats of the first loop, &formats[..5] (date_filter.rs:107)
DateTimeFormats == 5

-----------------------------------------------------------------------------
(* str::parse::<i64> and DateTime::from_timestamp.  A 64-bit integer is     *)
(* kept as a sign and the digits of its magnitude.                           *)

RECURSIVE StripZeros(_)
StripZeros(ds) == IF Len(ds) > 1 /\ ds[1] = 0 THEN StripZeros(Tail(ds)) ELSE ds

\* a <= b for digit sequences of the same length
RECURSIVE LeqDigits(_, _)
LeqDigits(a, b) ==
    IF a = <<>> THEN TRUE
    ELSE IF a[1] # b[1] THEN a[1] < b[1]
    ELSE LeqDigits(Tail(a), Tail(b))

\* the magnitudes of i64::MAX and i64::MIN
I64MaxDigits == <<9,2,2,3,3,7,2,0,3,6,8,5,4,7,7,5,8,0,7>>
I64MinDigits == <<9,2,2,3,3,7,2,0,3,6,8,5,4,7,7,5,8,0,8>>

NotI64 == [ok |-> FALSE]

\* value.parse::<i64>(): an optional sign, then digits, within the 64 bits
parse_i64(s) ==
    LET signed == At(s, 1, {"+", "-"})
        neg == At(s, 1, {"-"})
        d1 == IF signed THEN 2 ELSE 1
        mag == StripZeros([n \in 1 .. (Len(s) - d1 + 1) |-> DigitVal(s[n + d1 - 1])])
    IN  IF /\ d1 <= Len(s)
           /\ \A n \in d1 .. Len(s) : s[n] \in Digits
           /\ \/ Len(mag) < 19
              \/ Len(mag) = 19 /\ LeqDigits(mag, IF neg THEN I64MinDigits ELSE I64MaxDigits)
        THEN [ok |-> TRUE, neg |-> neg /\ mag # <<0>>, mag |-> mag]
        ELSE NotI64

\* timestamp / 1000: Rust's division truncates towards zero
DivThousand(n) ==
    LET q == IF Len(n.mag) > 3 THEN SubSeq(n.mag, 1, Len(n.mag) - 3) ELSE <<0>>
    IN  [ok |-> TRUE, neg |-> n.neg /\ q # <<0>>, mag |-> q]

SecondsPerDay == 86400

\* long division of a digit sequence by SecondsPerDay
RECURSIVE DivDay(_, _, _)
DivDay(ds, q, r) ==
    IF ds = <<>> THEN [q |-> StripZeros(q), r |-> r]
    ELSE DivDay(Tail(ds), Append(q, (r * 10 + ds[1]) \div SecondsPerDay),
                (r * 10 + ds[1]) % SecondsPerDay)

RECURSIVE ValueOf(_)
ValueOf(ds) == IF ds = <<>> THEN 0 ELSE ValueOf(SubSeq(ds, 1, Len(ds) - 1)) * 10 + ds[Len(ds)]

\* DateTime::from_timestamp(secs, 0), then .date_naive(): the day
\* secs.div_euclid(86_400), when NaiveDate can hold it
from_timestamp(secs) ==
    LET dv == DivDay(secs.mag, <<0>>, 0)
        up == IF secs.neg /\ dv.r > 0 THEN 1 ELSE 0
    IN  IF Len(dv.q) > 9 THEN NoDate
        ELSE LET days == IF secs.neg THEN 0 - (ValueOf(dv.q) + up) ELSE ValueOf(dv.q)
             IN  IF days >= MinDays /\ days <= MaxDays THEN SomeDate(days) ELSE NoDate

-----------------------------------------------------------------------------
(* parse_date_value, date_filter.rs:89-132 *)

\* the first loop (date_filter.rs:107-111) from format f on
RECURSIVE TryDateTimes(_, _, _)
TryDateTimes(value0, fs, f) ==
    IF f > DateTimeFormats THEN NoDate
    ELSE IF NaiveDateTime_parse_from_str(value0, fs[f]).some
         THEN NaiveDateTime_parse_from_str(value0, fs[f])
         ELSE TryDateTimes(value0, fs, f + 1)

\* the second loop (date_filter.rs:114-118) from format f on
RECURSIVE TryDates(_, _, _)
TryDates(value0, fs, f) ==
    IF f > Len(fs) THEN NoDate
    ELSE IF NaiveDate_parse_from_str(value0, fs[f]).some
         THEN NaiveDate_parse_from_str(value0, fs[f])
         ELSE TryDates(value0, fs, f + 1)

\* date_filter.rs:121-129
TryEpoch(value0) ==
    LET timestamp == parse_i64(value0)
    IN  IF ~timestamp.ok THEN NoDate
        ELSE IF from_timestamp(DivThousand(timestamp)).some
             THEN from_timestamp(DivThousand(timestamp))
             ELSE from_timestamp(timestamp)

parse_date_value(value0) ==
    IF parse_from_rfc3339(value0).some THEN parse_from_rfc3339(value0)
    ELSE IF TryDateTimes(value0, formats, 1).some THEN TryDateTimes(value0, formats, 1)
    ELSE IF TryDates(value0, formats, 1).some THEN TryDates(value0, formats, 1)
    ELSE TryEpoch(value0)

-----------------------------------------------------------------------------
(* apply_date_filter, date_filter.rs:53-86.  Positions are counted from 1   *)
(* here and from 0 in the source; 0 stands for Option::None.                *)

\* a position that is always found: the first header when the name is absent
PositionOrFirst(hs, name) ==
    IF \E k \in 1 .. Len(hs) : hs[k] = name
    THEN Min({k \in 1 .. Len(hs) : hs[k] = name})
    ELSE 1

\* headers.iter().position(|h| h == &filter.column_name) (date_filter.rs:59)
Position(hs, name) ==
    IF \E k \in 1 .. Len(hs) : hs[k] = name
    THEN Min({k \in 1 .. Len(hs) : hs[k] = name})
    ELSE 0

\* the closure with the end of the range left out
KeepRowEndExclusive(row, k, f) ==
    IF k > Len(row) THEN FALSE
    ELSE LET d == parse_date_value(row[k])
         IN  d.some /\ d.days >= f.start_date /\ d.days < f.end_date

\* the closure of .filter() (date_filter.rs:64-81)
KeepRow(row, k, f) ==
    IF k > Len(row) THEN FALSE
    ELSE LET d == parse_date_value(row[k])
         IN  d.some /\ d.days >= f.start_date /\ d.days <= f.end_date

\* rows.iter().filter(..).cloned().collect() (date_filter.rs:63-83)
RECURSIVE FilterRowsFrom(_, _, _, _)
FilterRowsFrom(rs, n, k, f) ==
    IF n > Len(rs) THEN <<>>
    ELSE (IF KeepRow(rs[n], k, f) THEN <<rs[n]>> ELSE <<>>) \o FilterRowsFrom(rs, n + 1, k, f)

FilterRows(rs, k, f) == FilterRowsFrom(rs, 1, k, f)

apply_date_filter(hs, rs, f) ==
    IF Position(hs, f.column_name) = 0
    THEN [kind |-> "Err", error |-> "column not found"]
    ELSE [kind |-> "Ok", rows |-> FilterRows(rs, Position(hs, f.column_name), f)]

-----------------------------------------------------------------------------
(* parse_date_filter, date_filter.rs:7-50.  Positions are counted from 1    *)
(* here and from 0 in the source; 0 stands for Option::None.                *)

kwDateFilter == <<"-","-","d","a","t","e","-","f","i","l","t","e","r">>

\* a range test that rejects nothing
StartAfterEndNever(start, end) == FALSE

\* the test of date_filter.rs:38
StartAfterEnd(start, end) == start > end

\* args.len() < pos + 3 (date_filter.rs:12)
TooFew(as, pos) == Len(as) < pos + 2

\* args.len() > pos + 3 (date_filter.rs:28)
HasEndDate(as, pos) == Len(as) > pos + 2

-----------------------------------------------------------------------------
(* main, main.rs:25-122: what each per-table closure computes *)

\* the lower-case form of a letter (str::to_lowercase, ASCII)
ToLower(c) ==
    IF \E n \in 1 .. 26 : UpperCase[n] = c
    THEN LowerCase[CHOOSE n \in 1 .. 26 : UpperCase[n] = c]
    ELSE c

extCsv == <<".", "c", "s", "v">>

\* format!("{}.csv", table.name.to_lowercase()) (main.rs:84)
Filename(name) == [n \in 1 .. Len(name) |-> ToLower(name[n])] \o extCsv

\* extract_insert_values when every pattern compiles: the rows of the first
\* pattern, from p on, that matches anything
RECURSIVE ExtractFrom(_, _, _)
ExtractFrom(text, name, p) ==
    IF p > 3 THEN <<>>
    ELSE LET new == RowsOf(InsertPayloads(text, InsertPatterns(name)[p], 1))
         IN  IF new # <<>> THEN new ELSE ExtractFrom(text, name, p + 1)

extract_insert_values(text, name) == ExtractFrom(text, name, 1)

\* a closure that goes on with the unfiltered rows when the filter fails
OnFilterErrorKeepRows(task) == [task EXCEPT !.pc = "rows"]

\* Err(e) => { eprintln!(..); return None; } (main.rs:73-76)
OnFilterError(task) == [task EXCEPT !.pc = "done", !.out = "None", !.rows = <<>>]

\* what write_csv hands to the file when it flushes: the header, then the rows
CsvRecords(hs, rs) == <<hs>> \o rs

\* a write of records at the start of a file that holds old
WriteAtStart(old, records) ==
    IF Len(old) > Len(records)
    THEN records \o SubSeq(old, Len(records) + 1, Len(old))
    ELSE records

-----------------------------------------------------------------------------
(* Inputs *)

PayloadChars == {SQ, DQ, ",", "a", " "}

\* the payloads of the spec's and the unit test's examples
ExampleTokenize == <<SQ,"a",",","b",SQ,","," ",SQ,"c",SQ,","," ","3">>
ExampleTest == <<SQ,"v","1",SQ,","," ",SQ,"v","2",SQ,","," ",SQ,"v",SQ,SQ,"3",SQ>>

Payloads == SeqsUpTo(PayloadChars, MaxLen) \cup {ExampleTokenize, ExampleTest}

ValueChars == {SQ, DQ, "a", " "}
TrimmedValues == {v \in SeqsUpTo(ValueChars, MaxValLen) : Trim(v) = v}

\* the pieces payloads of handle_replace_function are put together from
ReplacePieces ==
    {kwReplace \o <<SQ>>, <<SQ, ",">>, <<SQ>>, <<"(">>, <<")">>, <<"a">>, <<BS, "n">>, <<BS, SQ>>}

RECURSIVE Flatten(_)
Flatten(ss) == IF ss = <<>> THEN <<>> ELSE ss[1] \o Flatten(Tail(ss))

kwChar10 == <<"c","h","a","r","(","1","0",")">>
kwChar13 == <<"c","h","a","r","(","1","3",")">>
\* what sqlite3's .dump writes for a text with a line feed: replace('a\nb','\n',char(10))
ExampleDumpCall ==
    kwReplace \o <<SQ,"a",BS,"n","b",SQ,",",SQ,BS,"n",SQ,",">> \o kwChar10 \o <<")">>
\* and for a text with a line feed and a carriage return
ExampleNestedCall ==
    kwReplace \o kwReplace \o <<SQ,"a",SQ,",",SQ,BS,"n",SQ,",">> \o kwChar10 \o <<")">>
    \o <<",",SQ,BS,"r",SQ,",">> \o kwChar13 \o <<")">>
\* the first inside a payload: 1,replace('a\nb','\n',char(10)),'c'
ExampleDumpPayload == <<"1",",">> \o ExampleDumpCall \o <<",",SQ,"c",SQ>>
\* an escaped quote in the text and a plain second argument: replace('it\'s',1)
ExampleEscaped == kwReplace \o <<SQ,"i","t",BS,SQ,"s",SQ,",","1",")">>

ReplacePayloads ==
    {Flatten(ps) : ps \in SeqsUpTo(ReplacePieces, MaxPieces)}
    \cup {ExampleDumpCall, ExampleNestedCall, ExampleDumpPayload, ExampleEscaped}

\* A dump is written from statements.  An INSERT statement names its table in
\* one of three styles and lists values, each with the text the dump holds
\* for it (sql) and the value that text denotes (is).
NameT == <<"t">>
NameU == <<"u">>
NameUsers == <<"u","s","e","r","s">>
Styles == {"bare", "double", "back"}

Quoted(name, style) ==
    CASE style = "bare" -> name
      [] style = "double" -> <<DQ>> \o name \o <<DQ>>
      [] style = "back" -> <<BQ>> \o name \o <<BQ>>

\* 1,'it''s,x'
ValuesPlain ==
    << [sql |-> <<"1">>, is |-> <<"1">>],
       [sql |-> <<SQ,"i","t",SQ,SQ,"s",",","x",SQ>>, is |-> <<"i","t",SQ,"s",",","x">>] >>
\* 'a);b','c'
ValuesParen ==
    << [sql |-> <<SQ,"a",")",";","b",SQ>>, is |-> <<"a",")",";","b">>],
       [sql |-> <<SQ,"c",SQ>>, is |-> <<"c">>] >>
\* replace('a\nb','\n',char(10)),2
ValuesCall ==
    << [sql |-> ExampleDumpCall, is |-> <<"a",NL,"b">>],
       [sql |-> <<"2">>, is |-> <<"2">>] >>
\* '1','Alice Smith','alice@example.com'
ValuesAlice ==
    << [sql |-> <<SQ,"1",SQ>>, is |-> <<"1">>],
       [sql |-> <<SQ,"A","l","i","c","e"," ","S","m","i","t","h",SQ>>,
        is |-> <<"A","l","i","c","e"," ","S","m","i","t","h">>],
       [sql |-> <<SQ,"a","l","i","c","e","@","e","x","a","m","p","l","e",".","c","o","m",SQ>>,
        is |-> <<"a","l","i","c","e","@","e","x","a","m","p","l","e",".","c","o","m">>] >>

InsertStmt(t, st, vs) == [kind |-> "insert", table |-> t, style |-> st, vals |-> vs]
OtherStmt(text) == [kind |-> "other", text |-> text]

CreateT == <<"C","R","E","A","T","E"," ","T","A","B","L","E"," ","t"," ","(","i","d"," ","T","E","X","T",")",";",NL>>
CreateUsers == <<"C","R","E","A","T","E"," ","T","A","B","L","E"," ","u","s","e","r","s"," ","(","i","d"," ","T","E","X","T"," ","P","R","I","M","A","R","Y"," ","K","E","Y",","," ","n","a","m","e"," ","T","E","X","T",","," ","e","m","a","i","l"," ","T","E","X","T",")",";",NL>>

\* A CREATE TABLE body is written from column definitions (a name, then its
\* type and constraints) and table-level key clauses, either on one line
\* or one to a line as in the unit tests.
Col(name, rest) == [kind |-> "col", name |-> name, text |-> name \o <<" ">> \o rest]
Key(text) == [kind |-> "key", text |-> text]

ColId == Col(<<"i","d">>, <<"T","E","X","T"," ","P","R","I","M","A","R","Y"," ","K","E","Y">>)
ColN2 == Col(<<"n","_","2">>, <<"I","N","T","E","G","E","R"," ","N","O","T"," ","N","U","L","L">>)
ColP == Col(<<"p">>, <<"D","E","C","I","M","A","L","(","1","0",",","2",")">>)
ColName == Col(<<"n","a","m","e">>, <<"T","E","X","T">>)
ColEmail == Col(<<"e","m","a","i","l">>, <<"T","E","X","T">>)
ColCallSessionId == Col(<<"c","a","l","l","S","e","s","s","i","o","n","I","d">>, <<"T","E","X","T"," ","N","O","T"," ","N","U","L","L">>)
ColType == Col(<<"t","y","p","e">>, <<"T","E","X","T"," ","N","O","T"," ","N","U","L","L">>)
\* a column whose name is written in double quotes
ColQuotedId == [kind |-> "col", name |-> <<"i","d">>, text |-> <<DQ,"i","d",DQ," ","T","E","X","T">>]
KeyPk == Key(<<"P","R","I","M","A","R","Y"," ","K","E","Y"," ","(","i","d",")">>)
KeyFk == Key(<<"F","O","R","E","I","G","N"," ","K","E","Y"," ","(","n","_","2",")"," ","R","E","F","E","R","E","N","C","E","S"," ","u","(","i","d",")">>)
KeyPk2 == Key(<<"P","R","I","M","A","R","Y"," ","K","E","Y"," ","(","i","d",","," ","n","_","2",")">>)
KeyPk3 == Key(<<"P","R","I","M","A","R","Y"," ","K","E","Y"," ","(","i","d",","," ","n","_","2",","," ","p",")">>)
KeyFkCall ==
    Key(<<"F","O","R","E","I","G","N"," ","K","E","Y"," ","(","c","a","l","l","S","e","s","s","i","o","n","I","d",")"," ","R","E","F","E","R","E","N","C","E","S"," ","C","a","l","l","S","e","s","s","i","o","n","(","i","d",")">>)

Items == {ColId, ColN2, ColP, ColQuotedId, KeyPk, KeyFk, KeyPk2, KeyPk3}
Layouts == {"line", "lines"}

Indent == <<NL," "," "," "," ">>

RECURSIVE RenderItems(_, _)
RenderItems(b, layout) ==
    IF b = <<>> THEN IF layout = "lines" THEN <<NL>> ELSE <<>>
    ELSE (IF layout = "lines" THEN Indent ELSE <<>>) \o b[1].text
         \o (IF Len(b) = 1 THEN <<>> ELSE IF layout = "lines" THEN <<",">> ELSE <<",", " ">>)
         \o RenderItems(Tail(b), layout)

\* the body of test_parse_table_columns (parser.rs:194-199)
ExampleTestBody == <<ColId, ColCallSessionId, ColType, KeyFkCall>>

\* the calls parse_table_columns(columns_text) that are modelled
ColumnsCalls ==
    {<<b, l>> : b \in SeqsUpTo(Items, MaxItems), l \in Layouts} \cup {<<ExampleTestBody, "lines">>}

\* A CREATE TABLE statement: the keyword as written, the table named in one of
\* the three styles, the body, and what follows the closing parenthesis.
kwCreateLower == <<"c","r","e","a","t","e"," ","t","a","b","l","e">>
CreateStmt(kw, t, st, b, l, end) ==
    [kind |-> "create", kw |-> kw, table |-> t, style |-> st, body |-> b, layout |-> l,
     end |-> end]

RenderCreate(st) ==
    st.kw \o <<" ">> \o Quoted(st.table, st.style) \o <<" ", "(">>
    \o RenderItems(st.body, st.layout) \o <<")">> \o st.end

CreateStatements ==
    {CreateStmt(kwCreateTable, NameT, st, <<ColId, ColN2>>, "line", <<";", NL>>) : st \in Styles}
    \cup {CreateStmt(kwCreateLower, NameU, "bare", <<ColId, ColN2>>, "line", <<NL>>),
          CreateStmt(kwCreateTable, NameU, "bare", <<KeyPk>>, "line", <<";", NL>>),
          CreateStmt(kwCreateTable, NameU, "bare", <<>>, "line", <<";", NL>>),
          CreateStmt(kwCreateTable, NameT, "bare", <<ColId, KeyFk>>, "lines", <<";", NL>>),
          CreateStmt(kwCreateTable, NameUsers, "bare", <<ColId, ColName, ColEmail>>, "line",
                     <<";", NL>>),
          InsertStmt(NameT, "bare", ValuesPlain)}

SchemaDumps == SeqsUpTo(CreateStatements, MaxCreates)

RECURSIVE JoinSql(_)
JoinSql(vs) ==
    IF vs = <<>> THEN <<>>
    ELSE IF Len(vs) = 1 THEN vs[1].sql
    ELSE vs[1].sql \o <<",">> \o JoinSql(Tail(vs))

RenderStmt(st) ==
    IF st.kind = "other" THEN st.text
    ELSE IF st.kind = "create" THEN RenderCreate(st)
    ELSE kwInsertInto \o Quoted(st.table, st.style) \o kwValues \o JoinSql(st.vals)
         \o <<")", ";", NL>>

RECURSIVE Render(_)
Render(d) == IF d = <<>> THEN <<>> ELSE RenderStmt(d[1]) \o Render(Tail(d))

\* the statements enumerated dumps are made of: every style and payload for
\* table t, one statement of another table, one statement that is no INSERT
Statements ==
    {InsertStmt(NameT, st, vs) : st \in Styles,
                                 vs \in {ValuesPlain, ValuesAlice, ValuesParen, ValuesCall}}
    \cup {InsertStmt(NameU, "bare", ValuesPlain), OtherStmt(CreateT)}

\* the dump of the spec's end-to-end scenario
ExampleUsersDump == <<OtherStmt(CreateUsers), InsertStmt(NameUsers, "bare", ValuesAlice)>>

\* the calls extract_insert_values(content, table_name) that are modelled
InsertCalls ==
    {<<d, NameT>> : d \in SeqsUpTo(Statements, MaxStmts)} \cup {<<ExampleUsersDump, NameUsers>>}

\* Headers, rows and filters handed to apply_date_filter
NameId == <<"i","d">>
NameCreatedAt == <<"c","r","e","a","t","e","d","A","t">>
HeaderLists ==
    { <<NameId, NameCreatedAt>>, <<NameCreatedAt, NameId>>,
      <<NameId, NameCreatedAt, NameCreatedAt>>, <<NameId>> }

Cell10Jan == <<"2","0","2","4","-","0","1","-","1","0">>
Cell20Feb == <<"2","0","2","4","-","0","2","-","2","0">>
Cell1Jan == <<"2","0","2","4","-","0","1","-","0","1">>
Cell31Jan == <<"2","0","2","4","-","0","1","-","3","1">>
Cell31Dec == <<"2","0","2","3","-","1","2","-","3","1">>
Cell1Feb == <<"2","0","2","4","-","0","2","-","0","1">>
Cell15JanOffset == <<"2","0","2","4","-","0","1","-","1","5","T","1","4",":","3","0",":","0","0","+","0","0",":","0","0">>
Cell15JanMillis == <<"1","7","0","5","3","1","4","6","0","0","0","0","0">>
CellNotADate == <<"n","o","t","-","a","-","d","a","t","e">>

\* the rows of the spec's example, then rows at and around the ends of
\* January 2024, a short row, an unrecognized cell, a row whose two date
\* cells differ, and cells in the other recognized notations
FilterInputRows ==
    { <<<<"1">>, Cell10Jan>>, <<<<"2">>, Cell20Feb>>, <<<<"3">>>>, <<<<"4">>, CellNotADate>>,
      <<<<"5">>, Cell1Jan>>, <<<<"6">>, Cell31Jan>>, <<<<"7">>, Cell31Dec, Cell10Jan>>,
      <<<<"8">>, Cell1Feb>>, <<Cell15JanOffset, <<"9">>>>, <<<<"1", "0">>, Cell15JanMillis>> }

DateFilter(name, start, end) == [column_name |-> name, start_date |-> start, end_date |-> end]
FilterJanuary == DateFilter(NameCreatedAt, DaysFromCivil(2024, 1, 1), DaysFromCivil(2024, 1, 31))
FilterOneDay == DateFilter(NameCreatedAt, DaysFromCivil(2024, 1, 10), DaysFromCivil(2024, 1, 10))
DateFilters == {FilterJanuary, FilterOneDay}

\* the example of the spec's testable properties
ExampleFilterRows == << <<<<"1">>, Cell10Jan>>, <<<<"2">>, Cell20Feb>> >>

\* Command lines handed to parse_date_filter, and the days they are run on
ArgProgram == <<"p","a","r","s","l","e","y","-","c","s","v">>
ArgSqlFile == <<"d","u","m","p",".","s","q","l">>
Arg1Jan == <<"2","0","2","4","-","0","1","-","0","1">>
Arg31Jan == <<"2","0","2","4","-","0","1","-","3","1">>
Arg20Feb == <<"2","0","2","4","-","0","2","-","2","0">>
Arg30Feb == <<"2","0","2","4","-","0","2","-","3","0">>
ArgSlashDate == <<"0","1","/","1","5","/","2","0","2","4">>
DateArgs == {Arg1Jan, Arg31Jan, Arg20Feb, Arg30Feb, ArgSlashDate}

CommandLines ==
    LET base == <<ArgProgram, ArgSqlFile>>
    IN  {base, base \o <<kwDateFilter>>, base \o <<kwDateFilter, NameCreatedAt>>}
        \cup {base \o <<kwDateFilter, NameCreatedAt, a>> : a \in DateArgs}
        \cup {base \o <<kwDateFilter, NameCreatedAt, a, b>> : a \in DateArgs, b \in DateArgs}
        \cup {<<ArgProgram, kwDateFilter, NameCreatedAt, a, b>> : a \in DateArgs, b \in DateArgs}

Todays == {DaysFromCivil(2024, 1, 15), DaysFromCivil(2024, 1, 31), DaysFromCivil(2024, 3, 1)}

\* Values handed to parse_date_value, written from what they denote
Pad2(n) == <<DigitChars[(n \div 10) + 1], DigitChars[(n % 10) + 1]>>
Pad4(n) == Pad2(n \div 100) \o Pad2(n % 100)
RenderYmd(y, m, d) == Pad4(y) \o <<"-">> \o Pad2(m) \o <<"-">> \o Pad2(d)
TimeOfDay == <<"1","4",":","3","0",":","0","0">>
Fraction == <<".","1","2","3">>

\* year, month and day as written: real dates, 29 February of both years,
\* 30 February and a thirteenth month
WrittenYears == {2023, 2024}
WrittenMonthDays == {<<1, 15>>, <<2, 29>>, <<2, 30>>, <<3, 4>>, <<12, 31>>, <<13, 1>>}
\* the two numbers before the year of a slash date
WrittenSlashPairs ==
    {<<3, 4>>, <<4, 3>>, <<1, 15>>, <<15, 1>>, <<2, 29>>, <<29, 2>>, <<2, 30>>, <<13, 13>>,
     <<12, 31>>, <<31, 12>>}
Offsets == {<<"Z">>, <<"+","0","0",":","0","0">>, <<"-","0","5",":","0","0">>}

\* integers around zero, around a day, around the first and last second
\* NaiveDate can hold and a thousand times those, and the ends of i64; each
\* with the day of n / 1000 seconds and the day of n seconds, NoDate when
\* NaiveDate cannot hold it
WrittenIntegers ==
    {
      [kind |-> "int", text |-> <<"0">>,
       millis |-> SomeDate(0), seconds |-> SomeDate(0)],
      [kind |-> "int", text |-> <<"1">>,
       millis |-> SomeDate(0), seconds |-> SomeDate(0)],
      [kind |-> "int", text |-> <<"-","1">>,
       millis |-> SomeDate(0), seconds |-> SomeDate(-1)],
      [kind |-> "int", text |-> <<"9","9","9">>,
       millis |-> SomeDate(0), seconds |-> SomeDate(0)],
      [kind |-> "int", text |-> <<"-","9","9","9">>,
       millis |-> SomeDate(0), seconds |-> SomeDate(-1)],
      [kind |-> "int", text |-> <<"1","0","0","0">>,
       millis |-> SomeDate(0), seconds |-> SomeDate(0)],
      [kind |-> "int", text |-> <<"-","1","0","0","0">>,
       millis |-> SomeDate(-1), seconds |-> SomeDate(-1)],
      [kind |-> "int", text |-> <<"8","6","3","9","9","9","9","9">>,
       millis |-> SomeDate(0), seconds |-> SomeDate(999)],
      [kind |-> "int", text |-> <<"8","6","4","0","0","0","0","0">>,
       millis |-> SomeDate(1), seconds |-> SomeDate(1000)],
      [kind |-> "int", text |-> <<"-","8","6","4","0","0","0","0","0">>,
       millis |-> SomeDate(-1), seconds |-> SomeDate(-1000)],
      [kind |-> "int", text |-> <<"-","8","6","4","0","0","0","0","1">>,
       millis |-> SomeDate(-1), seconds |-> SomeDate(-1001)],
      [kind |-> "int", text |-> <<"1","7","0","5","3","1","4","6","0","0">>,
       millis |-> SomeDate(19), seconds |-> SomeDate(19737)],
      [kind |-> "int", text |-> <<"1","7","0","5","3","1","4","6","0","0","0","0","0">>,
       millis |-> SomeDate(19737), seconds |-> SomeDate(19737437)],
      [kind |-> "int", text |-> <<"8","2","1","0","2","6","6","8","7","6","7","9","9">>,
       millis |-> SomeDate(95026), seconds |-> SomeDate(95026236)],
      [kind |-> "int", text |-> <<"8","2","1","0","2","6","6","8","7","6","8","0","0">>,
       millis |-> SomeDate(95026), seconds |-> NoDate],
      [kind |-> "int", text |-> <<"8","2","1","0","2","6","6","8","7","6","7","9","9","0","0","0">>,
       millis |-> SomeDate(95026236), seconds |-> NoDate],
      [kind |-> "int", text |-> <<"8","2","1","0","2","6","6","8","7","6","7","9","9","9","9","9">>,
       millis |-> SomeDate(95026236), seconds |-> NoDate],
      [kind |-> "int", text |-> <<"8","2","1","0","2","6","6","8","7","6","8","0","0","0","0","0">>,
       millis |-> NoDate, seconds |-> NoDate],
      [kind |-> "int", text |-> <<"-","8","3","3","4","6","0","1","2","2","8","8","0","0">>,
       millis |-> SomeDate(-96466), seconds |-> SomeDate(-96465292)],
      [kind |-> "int", text |-> <<"-","8","3","3","4","6","0","1","2","2","8","8","0","1">>,
       millis |-> SomeDate(-96466), seconds |-> NoDate],
      [kind |-> "int", text |-> <<"-","8","3","3","4","6","0","1","2","2","8","8","0","0","0","0","0">>,
       millis |-> SomeDate(-96465292), seconds |-> NoDate],
      [kind |-> "int", text |-> <<"-","8","3","3","4","6","0","1","2","2","8","8","0","0","9","9","9">>,
       millis |-> SomeDate(-96465292), seconds |-> NoDate],
      [kind |-> "int", text |-> <<"-","8","3","3","4","6","0","1","2","2","8","8","0","1","0","0","0">>,
       millis |-> NoDate, seconds |-> NoDate],
      [kind |-> "int", text |-> <<"9","2","2","3","3","7","2","0","3","6","8","5","4","7","7","5","8","0","7">>,
       millis |-> NoDate, seconds |-> NoDate],
      [kind |-> "int", text |-> <<"-","9","2","2","3","3","7","2","0","3","6","8","5","4","7","7","5","8","0","8">>,
       millis |-> NoDate, seconds |-> NoDate]
    }

WrittenJunk == {<<"n","o","t","-","a","-","d","a","t","e">>, <<>>, <<"N","U","L","L">>, <<"2","0","2","4","-","0","1">>, <<"1","e","3">>, <<"9","2","2","3","3","7","2","0","3","6","8","5","4","7","7","5","8","0","8">>}

WrittenDates ==
    {[kind |-> "iso", y |-> y, m |-> md[1], d |-> md[2]] :
        y \in WrittenYears, md \in WrittenMonthDays}
    \cup {[kind |-> "datetime", y |-> y, m |-> md[1], d |-> md[2], sep |-> sep, frac |-> fr] :
        y \in WrittenYears, md \in WrittenMonthDays, sep \in {" ", "T"}, fr \in BOOLEAN}
    \cup {[kind |-> "offset", y |-> y, m |-> md[1], d |-> md[2], frac |-> fr, offset |-> off] :
        y \in WrittenYears, md \in WrittenMonthDays, fr \in BOOLEAN, off \in Offsets}
    \cup {[kind |-> "slash", a |-> ab[1], b |-> ab[2], y |-> y] :
        y \in WrittenYears, ab \in WrittenSlashPairs}
    \cup WrittenIntegers
    \cup {[kind |-> "junk", text |-> t] : t \in WrittenJunk}

RenderDate(w) ==
    CASE w.kind = "iso" -> RenderYmd(w.y, w.m, w.d)
      [] w.kind = "datetime" ->
            RenderYmd(w.y, w.m, w.d) \o <<w.sep>> \o TimeOfDay
            \o (IF w.frac THEN Fraction ELSE <<>>)
      [] w.kind = "offset" ->
            RenderYmd(w.y, w.m, w.d) \o <<"T">> \o TimeOfDay
            \o (IF w.frac THEN Fraction ELSE <<>>) \o w.offset
      [] w.kind = "slash" -> Pad2(w.a) \o <<"/">> \o Pad2(w.b) \o <<"/">> \o Pad4(w.y)
      [] OTHER -> w.text

DateValues == {RenderDate(w) : w \in WrittenDates}

\* Dumps for a whole run, written from tables: a CREATE TABLE statement with
\* TEXT columns, then one INSERT statement per row
RunTable(name, cols, rs) == [name |-> name, columns |-> cols, rows |-> rs]

\* a has no createdAt column; b and B differ by case only; e has no row in
\* January 2024
RunTableA == RunTable(<<"a">>, <<NameId>>, << <<<<"1">>>> >>)
RunTableB == RunTable(<<"b">>, <<NameId, NameCreatedAt>>, ExampleFilterRows)
RunTableUpperB == RunTable(<<"B">>, <<NameId, NameCreatedAt>>, << <<<<"3">>, Cell31Jan>> >>)
RunTableE == RunTable(<<"e">>, <<NameId, NameCreatedAt>>, << <<<<"4">>, Cell1Feb>> >>)
RunTables == {RunTableA, RunTableB, RunTableUpperB, RunTableE}

\* the dumps: sequences of different tables
RunDumps ==
    {d \in SeqsUpTo(RunTables, MaxTables) : \A a, b \in 1 .. Len(d) : a # b => d[a] # d[b]}

kwText == <<" ", "T", "E", "X", "T">>

RECURSIVE RenderColumns(_)
RenderColumns(cols) ==
    IF cols = <<>> THEN <<>>
    ELSE cols[1] \o kwText \o (IF Len(cols) = 1 THEN <<>> ELSE <<",", " ">>)
         \o RenderColumns(Tail(cols))

RECURSIVE RenderCells(_)
RenderCells(cells) ==
    IF cells = <<>> THEN <<>>
    ELSE <<SQ>> \o cells[1] \o <<SQ>> \o (IF Len(cells) = 1 THEN <<>> ELSE <<",">>)
         \o RenderCells(Tail(cells))

RECURSIVE RenderInserts(_, _)
RenderInserts(name, rs) ==
    IF rs = <<>> THEN <<>>
    ELSE kwInsertInto \o name \o kwValues \o RenderCells(rs[1]) \o <<")", ";", NL>>
         \o RenderInserts(name, Tail(rs))

RenderRunTable(t) ==
    kwCreateTable \o <<" ">> \o t.name \o <<" ", "(">> \o RenderColumns(t.columns)
    \o <<")", ";", NL>> \o RenderInserts(t.name, t.rows)

RECURSIVE RenderRun(_)
RenderRun(d) == IF d = <<>> THEN <<>> ELSE RenderRunTable(d[1]) \o RenderRun(Tail(d))

RunFilters == {[kind |-> "None"], [kind |-> "Some", filter |-> FilterJanuary]}

-----------------------------------------------------------------------------
(* parse_values, step by step *)

ValuesIdle ==
    /\ values_str = None /\ i = 0 /\ in_quotes = FALSE /\ quote_char = " "
    /\ current_value = <<>> /\ values = <<>> /\ cleaned = None
CleanIdle == val = None /\ cleaned_val = None
ReplaceIdle == payload = None /\ rewritten = None /\ rewritten_again = None
DumpIdle == dump = None /\ content = None
InsertIdle ==
    /\ table_name = None /\ pattern = 0
    /\ rows = <<>> /\ compile_failed = {} /\ result = [kind |-> "none"]
SchemaIdle == cursor = 0 /\ captured = <<>> /\ tables = <<>>
ColumnsIdle == body = None /\ columns_text = None /\ columns = None
DateIdle == value = None /\ format = 0 /\ strategy = "none" /\ date = NoDate
FilterIdle ==
    /\ headers = <<>> /\ input_rows = <<>> /\ filter = [kind |-> "none"] /\ column_index = 0
    /\ row_index = 0 /\ filtered = <<>> /\ filter_result = [kind |-> "none"]
ArgsIdle ==
    /\ args = <<>> /\ today = 0 /\ start_date = NoDate /\ end_date = NoDate
    /\ date_filter = [kind |-> "none"]
RunIdle ==
    /\ run_filter = [kind |-> "none"] /\ tasks = <<>> /\ files = <<>> /\ csv_files = <<>>
    /\ exit = "none"
AllIdle ==
    /\ ValuesIdle /\ CleanIdle /\ ReplaceIdle /\ DumpIdle /\ InsertIdle /\ SchemaIdle
    /\ ColumnsIdle

InitValues ==
    /\ pc = "scan"
    /\ values_str \in Payloads
    /\ i = 1 /\ in_quotes = FALSE /\ quote_char = " "
    /\ current_value = <<>> /\ values = <<>> /\ cleaned = None
    /\ CleanIdle /\ ReplaceIdle /\ DumpIdle /\ InsertIdle /\ SchemaIdle /\ ColumnsIdle
    /\ DateIdle /\ FilterIdle /\ ArgsIdle /\ RunIdle

ScanStep ==
    /\ pc = "scan" /\ i <= Len(values_str)
    /\ LET st == ScanChar(values_str, [i |-> i, in_quotes |-> in_quotes,
                                       quote_char |-> quote_char,
                                       current_value |-> current_value,
                                       values |-> values])
       IN  /\ i' = st.i /\ in_quotes' = st.in_quotes /\ quote_char' = st.quote_char
           /\ current_value' = st.current_value /\ values' = st.values
    /\ UNCHANGED <<pc, values_str, cleaned, notValues>>

ScanEnd ==
    /\ pc = "scan" /\ i > Len(values_str)
    /\ values' = PushLast(current_value, values)
    /\ pc' = "clean"
    /\ UNCHANGED <<values_str, i, in_quotes, quote_char, current_value, cleaned, notValues>>

CleanUp ==
    /\ pc = "clean"
    /\ cleaned' = CleanAll(values)
    /\ pc' = IF cleaned' = PanicRow THEN "panicked" ELSE "returned"
    /\ UNCHANGED <<values_str, i, in_quotes, quote_char, current_value, values, notValues>>

NextValues == ScanStep \/ ScanEnd \/ CleanUp

SpecValues == InitValues /\ [][NextValues]_vars

-----------------------------------------------------------------------------
(* clean_value on its own *)

InitClean ==
    /\ pc = "clean_value"
    /\ val \in TrimmedValues
    /\ cleaned_val = None
    /\ ValuesIdle /\ ReplaceIdle /\ DumpIdle /\ InsertIdle /\ SchemaIdle /\ ColumnsIdle
    /\ DateIdle /\ FilterIdle /\ ArgsIdle /\ RunIdle

CleanValue ==
    /\ pc = "clean_value"
    /\ cleaned_val' = clean_value(val)
    /\ pc' = IF cleaned_val' = Panic THEN "panicked" ELSE "returned"
    /\ UNCHANGED <<val, notClean>>

NextClean == CleanValue

SpecClean == InitClean /\ [][NextClean]_vars

-----------------------------------------------------------------------------
(* handle_replace_function, called on a payload and again on its result *)

InitReplace ==
    /\ pc = "handle_replace_function"
    /\ payload \in ReplacePayloads
    /\ rewritten = None /\ rewritten_again = None
    /\ ValuesIdle /\ CleanIdle /\ DumpIdle /\ InsertIdle /\ SchemaIdle /\ ColumnsIdle
    /\ DateIdle /\ FilterIdle /\ ArgsIdle /\ RunIdle

Rewrite ==
    /\ pc = "handle_replace_function"
    /\ rewritten' = handle_replace_function(payload)
    /\ pc' = "rewritten"
    /\ UNCHANGED <<payload, rewritten_again, notReplace>>

RewriteAgain ==
    /\ pc = "rewritten"
    /\ rewritten_again' = handle_replace_function(rewritten)
    /\ pc' = "rewritten_again"
    /\ UNCHANGED <<payload, rewritten, notReplace>>

NextReplace == Rewrite \/ RewriteAgain

SpecReplace == InitReplace /\ [][NextReplace]_vars

-----------------------------------------------------------------------------
(* extract_insert_values, one pattern of the loop at a time.  Regex::new can  *)
(* reject a pattern (a table name long enough exceeds the compiled-size      *)
(* limit), which the environment decides here.                               *)

InitInsert ==
    /\ pc = "patterns"
    /\ \E call \in InsertCalls :
          /\ dump = call[1]
          /\ content = Render(call[1])
          /\ table_name = call[2]
    /\ pattern = 1
    /\ rows = <<>>
    /\ compile_failed = {}
    /\ result = [kind |-> "none"]
    /\ ValuesIdle /\ CleanIdle /\ ReplaceIdle /\ SchemaIdle /\ ColumnsIdle
    /\ DateIdle /\ FilterIdle /\ ArgsIdle /\ RunIdle

\* Ok(insert_regex) => { ... } (parser.rs:79-90)
TryPatternOk ==
    /\ pc = "patterns" /\ pattern <= 3
    /\ LET new == RowsOf(InsertPayloads(content, InsertPatterns(table_name)[pattern], 1))
       IN  IF new = PanicRows
           THEN /\ pc' = "panicked"
                /\ result' = [kind |-> "panic"]
                /\ UNCHANGED <<rows, pattern>>
           ELSE /\ rows' = rows \o new
                /\ IF rows' # <<>> \/ pattern = 3
                   THEN pc' = "return" /\ UNCHANGED pattern
                   ELSE pc' = pc /\ pattern' = pattern + 1
                /\ UNCHANGED result
    /\ UNCHANGED <<table_name, compile_failed, notInsert>>

\* Err(e) => { eprintln!(...) } (parser.rs:91-93)
TryPatternErr ==
    /\ pc = "patterns" /\ pattern <= 3
    /\ compile_failed' = compile_failed \cup {pattern}
    /\ IF pattern = 3 THEN pc' = "return" /\ UNCHANGED pattern
       ELSE pc' = pc /\ pattern' = pattern + 1
    /\ UNCHANGED <<table_name, rows, result, notInsert>>

\* Ok(rows) (parser.rs:97)
ReturnRows ==
    /\ pc = "return"
    /\ result' = [kind |-> "Ok", rows |-> rows]
    /\ pc' = "returned"
    /\ UNCHANGED <<table_name, pattern, rows, compile_failed, notInsert>>

NextInsert == TryPatternOk \/ TryPatternErr \/ ReturnRows

SpecInsert == InitInsert /\ [][NextInsert]_vars

-----------------------------------------------------------------------------
(* parse_sql_file, one match of captures_iter at a time *)

InitSchema ==
    /\ pc = "captures"
    /\ dump \in SchemaDumps
    /\ content = Render(dump)
    /\ cursor = 1
    /\ captured = <<>>
    /\ tables = <<>>
    /\ ValuesIdle /\ CleanIdle /\ ReplaceIdle /\ InsertIdle /\ ColumnsIdle
    /\ DateIdle /\ FilterIdle /\ ArgsIdle /\ RunIdle

\* one iteration of the for loop (parser.rs:18-31)
NextCapture ==
    /\ pc = "captures"
    /\ LET m == NextCreateMatch(content, cursor)
       IN  /\ m.found
           /\ captured' = Append(captured, [name |-> m.name, body |-> m.body])
           /\ tables' = PushTable(tables, m.name, parse_table_columns(m.body))
           /\ cursor' = m.end + 1
    /\ UNCHANGED <<pc, notSchema>>

\* Ok((tables, content)) (parser.rs:33)
ReturnTables ==
    /\ pc = "captures"
    /\ ~NextCreateMatch(content, cursor).found
    /\ pc' = "returned"
    /\ UNCHANGED <<schemaVars, notSchema>>

NextSchema == NextCapture \/ ReturnTables

SpecSchema == InitSchema /\ [][NextSchema]_vars

-----------------------------------------------------------------------------
(* parse_table_columns on its own *)

InitColumns ==
    /\ pc = "parse_table_columns"
    /\ \E call \in ColumnsCalls :
          /\ body = call
          /\ columns_text = RenderItems(call[1], call[2])
    /\ columns = None
    /\ ValuesIdle /\ CleanIdle /\ ReplaceIdle /\ DumpIdle /\ InsertIdle /\ SchemaIdle
    /\ DateIdle /\ FilterIdle /\ ArgsIdle /\ RunIdle

ParseColumns ==
    /\ pc = "parse_table_columns"
    /\ columns' = parse_table_columns(columns_text)
    /\ pc' = "returned"
    /\ UNCHANGED <<body, columns_text, notColumns>>

NextColumns == ParseColumns

SpecColumns == InitColumns /\ [][NextColumns]_vars

-----------------------------------------------------------------------------
(* apply_date_filter, one row of the iterator at a time *)

InitFilter ==
    /\ pc = "position"
    /\ headers \in HeaderLists
    /\ input_rows \in SeqsUpTo(FilterInputRows, MaxRows)
    /\ filter \in DateFilters
    /\ column_index = 0
    /\ row_index = 1
    /\ filtered = <<>>
    /\ filter_result = [kind |-> "none"]
    /\ AllIdle /\ DateIdle /\ ArgsIdle /\ RunIdle

\* the position is Some(column_index) (date_filter.rs:59)
FindColumn ==
    /\ pc = "position"
    /\ Position(headers, filter.column_name) # 0
    /\ column_index' = Position(headers, filter.column_name)
    /\ pc' = "filter"
    /\ UNCHANGED <<headers, input_rows, filter, row_index, filtered, filter_result, notFilter>>

\* .ok_or_else(..)? returns the error (date_filter.rs:60)
ColumnNotFound ==
    /\ pc = "position"
    /\ Position(headers, filter.column_name) = 0
    /\ filter_result' = [kind |-> "Err", error |-> "column not found"]
    /\ pc' = "returned"
    /\ UNCHANGED <<headers, input_rows, filter, column_index, row_index, filtered, notFilter>>

\* the closure on the next row (date_filter.rs:64-82)
FilterRow ==
    /\ pc = "filter"
    /\ row_index <= Len(input_rows)
    /\ filtered' = IF KeepRow(input_rows[row_index], column_index, filter)
                   THEN Append(filtered, input_rows[row_index])
                   ELSE filtered
    /\ row_index' = row_index + 1
    /\ UNCHANGED <<pc, headers, input_rows, filter, column_index, filter_result, notFilter>>

\* Ok(filtered) (date_filter.rs:85)
ReturnFiltered ==
    /\ pc = "filter"
    /\ row_index > Len(input_rows)
    /\ filter_result' = [kind |-> "Ok", rows |-> filtered]
    /\ pc' = "returned"
    /\ UNCHANGED <<headers, input_rows, filter, column_index, row_index, filtered, notFilter>>

NextFilter == FindColumn \/ ColumnNotFound \/ FilterRow \/ ReturnFiltered

SpecFilter == InitFilter /\ [][NextFilter]_vars

-----------------------------------------------------------------------------
(* parse_date_filter, step by step *)

InitArgs ==
    /\ pc = "flag"
    /\ args \in CommandLines
    /\ today \in Todays
    /\ start_date = NoDate
    /\ end_date = NoDate
    /\ date_filter = [kind |-> "none"]
    /\ AllIdle /\ DateIdle /\ FilterIdle /\ RunIdle

\* the flag is not among the arguments: Ok(None) (date_filter.rs:47-49)
NoFlag ==
    /\ pc = "flag"
    /\ Position(args, kwDateFilter) = 0
    /\ date_filter' = [kind |-> "None"]
    /\ pc' = "returned"
    /\ UNCHANGED <<args, today, start_date, end_date, notArgs>>

\* the flag is there: bail when arguments are missing (date_filter.rs:12-18)
FindFlag ==
    /\ pc = "flag"
    /\ Position(args, kwDateFilter) # 0
    /\ IF TooFew(args, Position(args, kwDateFilter))
       THEN date_filter' = [kind |-> "Err", error |-> "too few arguments"] /\ pc' = "returned"
       ELSE pc' = "start" /\ UNCHANGED date_filter
    /\ UNCHANGED <<args, today, start_date, end_date, notArgs>>

\* date_filter.rs:20-25
ParseStartDate ==
    /\ pc = "start"
    /\ LET parsed == NaiveDate_parse_from_str(args[Position(args, kwDateFilter) + 2], fmtYmd)
       IN  IF parsed.some
           THEN start_date' = parsed /\ pc' = "end" /\ UNCHANGED date_filter
           ELSE /\ date_filter' = [kind |-> "Err", error |-> "invalid start date"]
                /\ pc' = "returned"
                /\ UNCHANGED start_date
    /\ UNCHANGED <<args, today, end_date, notArgs>>

\* date_filter.rs:28-31
ParseEndDate ==
    /\ pc = "end"
    /\ HasEndDate(args, Position(args, kwDateFilter))
    /\ LET parsed == NaiveDate_parse_from_str(args[Position(args, kwDateFilter) + 3], fmtYmd)
       IN  IF parsed.some
           THEN end_date' = parsed /\ pc' = "validate" /\ UNCHANGED date_filter
           ELSE /\ date_filter' = [kind |-> "Err", error |-> "invalid end date"]
                /\ pc' = "returned"
                /\ UNCHANGED end_date
    /\ UNCHANGED <<args, today, start_date, notArgs>>

\* date_filter.rs:32-35
DefaultEndDate ==
    /\ pc = "end"
    /\ ~HasEndDate(args, Position(args, kwDateFilter))
    /\ end_date' = SomeDate(today)
    /\ pc' = "validate"
    /\ UNCHANGED <<args, today, start_date, date_filter, notArgs>>

\* date_filter.rs:38-46
ValidateRange ==
    /\ pc = "validate"
    /\ date_filter' =
          IF StartAfterEnd(start_date.days, end_date.days)
          THEN [kind |-> "Err", error |-> "start after end"]
          ELSE [kind |-> "Some",
                filter |-> DateFilter(args[Position(args, kwDateFilter) + 1],
                                      start_date.days, end_date.days)]
    /\ pc' = "returned"
    /\ UNCHANGED <<args, today, start_date, end_date, notArgs>>

NextArgs ==
    NoFlag \/ FindFlag \/ ParseStartDate \/ ParseEndDate \/ DefaultEndDate \/ ValidateRange

SpecArgs == InitArgs /\ [][NextArgs]_vars

-----------------------------------------------------------------------------
(* parse_date_value, one attempt at a time *)

InitDate ==
    /\ pc = "rfc3339"
    /\ value \in DateValues
    /\ format = 0
    /\ strategy = "none"
    /\ date = NoDate
    /\ AllIdle /\ FilterIdle /\ ArgsIdle /\ RunIdle

\* date_filter.rs:91-93
TryRfc3339 ==
    /\ pc = "rfc3339"
    /\ IF parse_from_rfc3339(value).some
       THEN /\ date' = parse_from_rfc3339(value)
            /\ strategy' = "rfc3339"
            /\ pc' = "returned"
            /\ UNCHANGED format
       ELSE /\ pc' = "datetime"
            /\ format' = 1
            /\ UNCHANGED <<date, strategy>>
    /\ UNCHANGED <<value, notDate>>

\* one iteration of the loop over &formats[..5] (date_filter.rs:107-111)
TryDateTimeFormat ==
    /\ pc = "datetime"
    /\ IF NaiveDateTime_parse_from_str(value, formats[format]).some
       THEN /\ date' = NaiveDateTime_parse_from_str(value, formats[format])
            /\ strategy' = "datetime"
            /\ pc' = "returned"
            /\ UNCHANGED format
       ELSE /\ IF format = DateTimeFormats
               THEN pc' = "date" /\ format' = 1
               ELSE pc' = pc /\ format' = format + 1
            /\ UNCHANGED <<date, strategy>>
    /\ UNCHANGED <<value, notDate>>

\* one iteration of the loop over &formats (date_filter.rs:114-118)
TryDateFormat ==
    /\ pc = "date"
    /\ IF NaiveDate_parse_from_str(value, formats[format]).some
       THEN /\ date' = NaiveDate_parse_from_str(value, formats[format])
            /\ strategy' = "date"
            /\ pc' = "returned"
            /\ UNCHANGED format
       ELSE /\ IF format = Len(formats)
               THEN pc' = "epoch" /\ format' = 0
               ELSE pc' = pc /\ format' = format + 1
            /\ UNCHANGED <<date, strategy>>
    /\ UNCHANGED <<value, notDate>>

\* value.parse::<i64>() and the first from_timestamp (date_filter.rs:121-125)
TryEpochMillis ==
    /\ pc = "epoch"
    /\ LET timestamp == parse_i64(value)
       IN  IF ~timestamp.ok
           THEN pc' = "none" /\ UNCHANGED <<date, strategy>>
           ELSE IF from_timestamp(DivThousand(timestamp)).some
                THEN /\ date' = from_timestamp(DivThousand(timestamp))
                     /\ strategy' = "millis"
                     /\ pc' = "returned"
                ELSE pc' = "seconds" /\ UNCHANGED <<date, strategy>>
    /\ UNCHANGED <<value, format, notDate>>

\* the second from_timestamp (date_filter.rs:126-128)
TryEpochSeconds ==
    /\ pc = "seconds"
    /\ IF from_timestamp(parse_i64(value)).some
       THEN /\ date' = from_timestamp(parse_i64(value))
            /\ strategy' = "seconds"
            /\ pc' = "returned"
       ELSE pc' = "none" /\ UNCHANGED <<date, strategy>>
    /\ UNCHANGED <<value, format, notDate>>

\* None (date_filter.rs:131)
ReturnNoDate ==
    /\ pc = "none"
    /\ date' = NoDate
    /\ pc' = "returned"
    /\ UNCHANGED <<value, format, strategy, notDate>>

NextDate ==
    TryRfc3339 \/ TryDateTimeFormat \/ TryDateFormat \/ TryEpochMillis \/ TryEpochSeconds
    \/ ReturnNoDate

SpecDate == InitDate /\ [][NextDate]_vars

-----------------------------------------------------------------------------
(* main: the per-table closures of par_iter run in any interleaving.  The   *)
(* command line has been parsed and the dump exists; no write fails.          *)

NewTask == [pc |-> "extract", rows |-> <<>>, out |-> "running"]
NoFile == [exists |-> FALSE, records |-> <<>>, creators |-> {}]

InitRun ==
    /\ pc = "parse_sql_file"
    /\ dump \in RunDumps
    /\ content = RenderRun(dump)
    /\ run_filter \in RunFilters
    /\ tables = <<>>
    /\ tasks = <<>>
    /\ files = <<>>
    /\ csv_files = <<>>
    /\ exit = "none"
    /\ ValuesIdle /\ CleanIdle /\ ReplaceIdle /\ InsertIdle /\ cursor = 0 /\ captured = <<>>
    /\ ColumnsIdle /\ DateIdle /\ FilterIdle /\ ArgsIdle

\* main.rs:62, then par_iter hands one closure to the pool per table
ParseSqlFile ==
    /\ pc = "parse_sql_file"
    /\ tables' = TablesFrom(content, 1, <<>>)
    /\ tasks' = [t \in 1 .. Len(tables') |-> NewTask]
    /\ files' = [f \in {Filename(tables'[t].name) : t \in 1 .. Len(tables')} |-> NoFile]
    /\ pc' = "par_iter"
    /\ UNCHANGED <<dump, content, run_filter, csv_files, exit, notRun>>

\* main.rs:67: extract_insert_values never returns Err; a panic of
\* clean_value unwinds the closure
ExtractRows(t) ==
    /\ pc = "par_iter" /\ tasks[t].pc = "extract"
    /\ LET rs == extract_insert_values(content, tables[t].name)
       IN  tasks' = [tasks EXCEPT ![t] =
                        IF rs = PanicRows
                        THEN [@ EXCEPT !.pc = "panicked", !.out = "panic"]
                        ELSE [@ EXCEPT !.rows = rs,
                                       !.pc = IF run_filter.kind = "Some"
                                              THEN "filter" ELSE "rows"]]
    /\ UNCHANGED <<pc, dump, content, tables, run_filter, files, csv_files, exit, notRun>>

\* main.rs:70-78
ApplyDateFilter(t) ==
    /\ pc = "par_iter" /\ tasks[t].pc = "filter"
    /\ LET r == apply_date_filter(tables[t].columns, tasks[t].rows, run_filter.filter)
       IN  tasks' = [tasks EXCEPT ![t] =
                        IF r.kind = "Err"
                        THEN OnFilterError(@)
                        ELSE [@ EXCEPT !.pc = "rows", !.rows = r.rows]]
    /\ UNCHANGED <<pc, dump, content, tables, run_filter, files, csv_files, exit, notRun>>

\* main.rs:93-96: no rows remain
SkipEmpty(t) ==
    /\ pc = "par_iter" /\ tasks[t].pc = "rows"
    /\ tasks[t].rows = <<>>
    /\ tasks' = [tasks EXCEPT ![t] = [@ EXCEPT !.pc = "done", !.out = "None"]]
    /\ UNCHANGED <<pc, dump, content, tables, run_filter, files, csv_files, exit, notRun>>

\* Writer::from_path (main.rs:303): the file is created, or emptied
CreateCsv(t) ==
    /\ pc = "par_iter" /\ tasks[t].pc = "rows"
    /\ tasks[t].rows # <<>>
    /\ files' = [files EXCEPT ![Filename(tables[t].name)] =
                    [exists |-> TRUE, records |-> <<>>, creators |-> @.creators \cup {t}]]
    /\ tasks' = [tasks EXCEPT ![t] = [@ EXCEPT !.pc = "write"]]
    /\ UNCHANGED <<pc, dump, content, tables, run_filter, csv_files, exit, notRun>>

\* write_record into the writer's buffer, then flush (main.rs:307-317): the
\* records reach the file from this writer's position, the start
FlushCsv(t) ==
    /\ pc = "par_iter" /\ tasks[t].pc = "write"
    /\ files' = [files EXCEPT ![Filename(tables[t].name)].records =
                    WriteAtStart(@, CsvRecords(tables[t].columns, tasks[t].rows))]
    /\ tasks' = [tasks EXCEPT ![t] = [@ EXCEPT !.pc = "done", !.out = "Some"]]
    /\ UNCHANGED <<pc, dump, content, tables, run_filter, csv_files, exit, notRun>>

\* the file names of the closures that returned Some, in table order
RECURSIVE Collected(_, _, _)
Collected(tbls, tks, t) ==
    IF t > Len(tbls) THEN <<>>
    ELSE (IF tks[t].out = "Some" THEN <<Filename(tbls[t].name)>> ELSE <<>>)
         \o Collected(tbls, tks, t + 1)

\* collect(), the report and Ok(()) (main.rs:103-121)
Complete ==
    /\ pc = "par_iter"
    /\ \A t \in 1 .. Len(tasks) : tasks[t].pc = "done"
    /\ csv_files' = Collected(tables, tasks, 1)
    /\ exit' = "Ok"
    /\ pc' = "complete"
    /\ UNCHANGED <<dump, content, tables, run_filter, tasks, files, notRun>>

NextRun ==
    \/ ParseSqlFile
    \/ \E t \in 1 .. Len(tasks) : ExtractRows(t)
    \/ \E t \in 1 .. Len(tasks) : ApplyDateFilter(t)
    \/ \E t \in 1 .. Len(tasks) : SkipEmpty(t)
    \/ \E t \in 1 .. Len(tasks) : CreateCsv(t)
    \/ \E t \in 1 .. Len(tasks) : FlushCsv(t)
    \/ Complete

SpecRun == InitRun /\ [][NextRun]_vars

-----------------------------------------------------------------------------
(* Reference notions for the tokenizer and the normalizer, written without *)
(* look-ahead: inside a quote, an occurrence of the active quote character *)
(* is "pending"; it was the first half of a doubled quote when the same    *)
(* character follows, and the closing quote otherwise.                     *)

RECURSIVE QuoteAfter(_, _)
QuoteAfter(chars, k) ==
    IF k = 0 THEN [m |-> "out", q |-> " "]
    ELSE LET prev == QuoteAfter(chars, k - 1)
             c == chars[k]
             open == IF c \in {SQ, DQ} THEN [m |-> "in", q |-> c]
                     ELSE [m |-> "out", q |-> " "]
         IN  CASE prev.m = "out" -> open
               [] prev.m = "in" -> IF c = prev.q THEN [m |-> "pend", q |-> c] ELSE prev
               [] prev.m = "pend" -> IF c = prev.q THEN [m |-> "in", q |-> c] ELSE open

\* the commas among the first n characters that lie outside every quote
TopLevelCommas(chars, n) ==
    {k \in 1 .. n : chars[k] = "," /\ QuoteAfter(chars, k - 1).m # "in"}

\* the pieces of chars[1..n] between consecutive positions of cuts, in order
RECURSIVE Pieces(_, _, _, _)
Pieces(chars, from, n, cuts) ==
    LET later == {k \in cuts : k >= from}
    IN  IF later = {} THEN <<SubSeq(chars, from, n)>>
        ELSE <<SubSeq(chars, from, Min(later) - 1)>>
             \o Pieces(chars, Min(later) + 1, n, cuts)

Front(s) == SubSeq(s, 1, Len(s) - 1)
Last(s) == s[Len(s)]

\* one left-to-right pass that turns each doubled quote into a single one
RECURSIVE Undouble(_)
Undouble(s) ==
    IF Len(s) < 2 THEN s
    ELSE IF s[1] \in {SQ, DQ} /\ s[2] = s[1]
         THEN <<s[1]>> \o Undouble(SubSeq(s, 3, Len(s)))
         ELSE <<s[1]>> \o Undouble(Tail(s))

\* the parenthesis that closes the one opened before position k, at nesting
\* depth; 0 when there is none
RECURSIVE ClosingParen(_, _, _)
ClosingParen(chars, k, depth) ==
    IF k > Len(chars) THEN 0
    ELSE IF chars[k] = "(" THEN ClosingParen(chars, k + 1, depth + 1)
    ELSE IF chars[k] = ")"
         THEN IF depth = 1 THEN k ELSE ClosingParen(chars, k + 1, depth - 1)
    ELSE ClosingParen(chars, k + 1, depth)

\* every parenthesis of chars[k..] has its partner, depth being those open at k
RECURSIVE Balanced(_, _, _)
Balanced(chars, k, depth) ==
    IF k > Len(chars) THEN depth = 0
    ELSE IF chars[k] = "(" THEN Balanced(chars, k + 1, depth + 1)
    ELSE IF chars[k] = ")" THEN depth > 0 /\ Balanced(chars, k + 1, depth - 1)
    ELSE Balanced(chars, k + 1, depth)

\* a call replace('<text>', <other arguments>) that starts at s, through its own
\* closing parenthesis
CallAt(chars, s) ==
    LET j == Find(chars, <<SQ, ",">>, s + 9)
        e == IF j = 0 THEN 0 ELSE ClosingParen(chars, j + 2, 1)
    IN  IF StartsWith(SubSeq(chars, s, Len(chars)), kwReplace \o <<SQ>>) /\ e # 0
        THEN [found |-> TRUE, start |-> s, cap |-> SubSeq(chars, s + 9, j - 1), end |-> e]
        ELSE [found |-> FALSE]

\* chars from position from on, with every such call replaced as a whole by
\* its quoted, unescaped text
RECURSIVE WholeCallsReplaced(_, _)
WholeCallsReplaced(chars, from) ==
    LET at == {s \in from .. Len(chars) : CallAt(chars, s).found}
        m == CallAt(chars, Min(at))
    IN  IF at = {} THEN SubSeq(chars, from, Len(chars))
        ELSE SubSeq(chars, from, m.start - 1) \o Replacement(m.cap)
             \o WholeCallsReplaced(chars, m.end + 1)

\* a value that is a complete quoted pair
Wrapped(v) == Len(v) >= 2 /\ v[1] \in {SQ, DQ} /\ v[Len(v)] = v[1]

-----------------------------------------------------------------------------
(* Claims about parse_values and clean_value *)

\* C1: at every point of the scan the values pushed so far are the trimmed
\* pieces between consecutive top-level commas (quotes retained), the value
\* being accumulated is the text since the last top-level comma, and the
\* scanner is in quoted mode exactly when a quote is open; so a comma inside
\* an open quote never splits, and a quote character followed by its repeat
\* never closes.  After the scan the last piece is emitted when non-empty.
\* The payload 'a,b', 'c', 3 yields the raw values 'a,b' and 'c' and 3.
C1_SplitsOnlyAtTopLevelCommas ==
    pc \in {"scan", "clean", "returned", "panicked"} =>
        LET n == IF pc = "scan" THEN i - 1 ELSE Len(values_str)
            ps == Pieces(values_str, 1, n, TopLevelCommas(values_str, n))
            q == QuoteAfter(values_str, n)
        IN  /\ n <= Len(values_str)
            /\ current_value = Last(ps)
            /\ in_quotes <=> (q.m = "in")
            /\ in_quotes => quote_char = q.q
            /\ pc = "scan" => values = [k \in 1 .. Len(ps) - 1 |-> Trim(ps[k])]
            /\ pc # "scan" =>
                  values = [k \in 1 .. (IF Last(ps) = <<>> THEN Len(ps) - 1 ELSE Len(ps))
                              |-> Trim(ps[k])]
            /\ (pc # "scan" /\ values_str = ExampleTokenize) =>
                  values = << <<SQ,"a",",","b",SQ>>, <<SQ,"c",SQ>>, <<"3">> >>

\* C1 witness: a scan has ended on a payload with a comma inside a quote and
\* a comma outside, and the values were split at the outside commas only.
C1_Witness ==
    /\ pc = "clean"
    /\ \E k \in 1 .. Len(values_str) :
          values_str[k] = "," /\ k \notin TopLevelCommas(values_str, Len(values_str))
    /\ TopLevelCommas(values_str, Len(values_str)) # {}
    /\ Len(values) = Cardinality(TopLevelCommas(values_str, Len(values_str))) + 1

\* C2: a payload whose scan ends inside an open quote makes parse_values
\* return normally, with the partial text as the last value.
C2_UnterminatedQuoteReturns ==
    (pc \in {"returned", "panicked"} /\ in_quotes) =>
        /\ pc = "returned"
        /\ values # <<>>
        /\ Last(values) = Trim(current_value)
        /\ Len(cleaned) = Len(values)

\* C3: clean_value strips the outer pair of a fully quoted value and
\* undoubles the quotes inside it, and returns every other value unchanged.
C3_CleanValue ==
    pc # "clean_value" /\ val # None =>
        cleaned_val = IF Wrapped(val) THEN Undouble(SubSeq(val, 2, Len(val) - 1)) ELSE val

-----------------------------------------------------------------------------
(* Claims about handle_replace_function *)

\* C6: every call replace('<text>', <other arguments>) is replaced as a whole,
\* through its own closing parenthesis, by the quoted unescaped text; nothing
\* of the call stays behind and the text outside the calls is unchanged.
\* (Stated for the payloads whose parentheses are balanced, where each call
\* has a closing parenthesis of its own.)
C6_WholeCallReplaced ==
    (pc \in {"rewritten", "rewritten_again"} /\ Balanced(payload, 1, 0)) =>
        rewritten = WholeCallsReplaced(payload, 1)

\* C7: the rewriter is idempotent, and a payload without the substring
\* replace( is returned unchanged.
C7_Idempotent ==
    /\ pc = "rewritten_again" => rewritten_again = rewritten
    /\ (pc \in {"rewritten", "rewritten_again"} /\ ~Contains(payload, kwReplace)) =>
          rewritten = payload

-----------------------------------------------------------------------------
(* Claims about extract_insert_values *)

\* the INSERT statements of the dump that name table t, in dump order
RECURSIVE StmtsOf(_, _)
StmtsOf(d, t) ==
    IF d = <<>> THEN <<>>
    ELSE IF d[1].kind = "insert" /\ d[1].table = t
         THEN <<d[1]>> \o StmtsOf(Tail(d), t)
         ELSE StmtsOf(Tail(d), t)

\* the row a statement denotes
RowOf(st) == [n \in 1 .. Len(st.vals) |-> st.vals[n].is]

OneStyle(d, t) ==
    \A a, b \in 1 .. Len(StmtsOf(d, t)) : StmtsOf(d, t)[a].style = StmtsOf(d, t)[b].style

\* C4: when the table's INSERT statements use one quoting style (and every
\* pattern compiles), the rows returned are the rows of exactly those
\* statements, one each, in dump order, with the values they denote.
C4_OneRowPerStatement ==
    (pc \in {"returned", "panicked"}
        /\ OneStyle(dump, table_name) /\ compile_failed = {}) =>
        /\ pc = "returned"
        /\ result.kind = "Ok"
        /\ result.rows = [n \in 1 .. Len(StmtsOf(dump, table_name))
                            |-> RowOf(StmtsOf(dump, table_name)[n])]

\* C5: when Regex::new rejects one of the patterns, extract_insert_values
\* returns an error, never Ok.
C5_CompileFailureIsAnError ==
    (pc = "returned" /\ compile_failed # {}) => result.kind = "Err"

\* the statements of a sequence that are written in one style
RECURSIVE OfStyle(_, _)
OfStyle(sts, style) ==
    IF sts = <<>> THEN <<>>
    ELSE (IF sts[1].style = style THEN <<sts[1]>> ELSE <<>>) \o OfStyle(Tail(sts), style)

\* the first of bare, double-quoted, back-quoted in which the dump writes a
\* statement of table t; bare when it writes none
FirstShape(d, t) ==
    IF OfStyle(StmtsOf(d, t), "bare") # <<>> THEN "bare"
    ELSE IF OfStyle(StmtsOf(d, t), "double") # <<>> THEN "double"
    ELSE IF OfStyle(StmtsOf(d, t), "back") # <<>> THEN "back"
    ELSE "bare"

\* every statement of table t holds only plain literals: no replace() call
\* and no ");" inside a quoted value
PlainLiterals(d, t) ==
    \A n \in 1 .. Len(StmtsOf(d, t)) : StmtsOf(d, t)[n].vals \in {ValuesPlain, ValuesAlice}

\* C17: the shapes are tried in the order bare, double-quoted, back-quoted:
\* the rows returned are the rows of the statements written in the first of
\* these shapes that the dump uses for the table, and of no other shape.
C17_FirstShapeBareDoubleBack ==
    (pc = "returned" /\ compile_failed = {} /\ PlainLiterals(dump, table_name)) =>
        LET sts == OfStyle(StmtsOf(dump, table_name), FirstShape(dump, table_name))
        IN  /\ result.kind = "Ok"
            /\ result.rows = [n \in 1 .. Len(sts) |-> RowOf(sts[n])]

\* no statement of table t holds a replace() call
NoCalls(d, t) == \A n \in 1 .. Len(StmtsOf(d, t)) : StmtsOf(d, t)[n].vals # ValuesCall

\* C19: a ");" inside a quoted value does not end the payload: when the
\* table's statements use one quoting style and hold only literals, some of
\* them with ");" inside quotes, each statement gives the row of the values
\* it wrote, with the same number of values and the same contents.
C19_QuotedParenSemicolonKept ==
    (pc \in {"returned", "panicked"} /\ compile_failed = {}
        /\ OneStyle(dump, table_name) /\ NoCalls(dump, table_name)) =>
        /\ pc = "returned"
        /\ result.kind = "Ok"
        /\ result.rows = [n \in 1 .. Len(StmtsOf(dump, table_name))
                            |-> RowOf(StmtsOf(dump, table_name)[n])]

-----------------------------------------------------------------------------
(* The schema extractor *)

\* the Table a captured match stands for
TableOf(c) == [name |-> c.name, columns |-> parse_table_columns(c.body)]

RECURSIVE MapTableOf(_)
MapTableOf(cs) == IF cs = <<>> THEN <<>> ELSE <<TableOf(cs[1])>> \o MapTableOf(Tail(cs))

YieldsColumns(c) == parse_table_columns(c.body) # <<>>

\* C8: every Table of the returned sequence has a non-empty column list, and
\* the sequence is exactly the matches whose body yields at least one valid
\* column name, in order: a match that yields none emits no Table.
C8_TablesHaveColumns ==
    /\ \A n \in 1 .. Len(tables) : tables[n].columns # <<>>
    /\ tables = MapTableOf(SelectSeq(captured, YieldsColumns))

\* a dump with a match that was surfaced and a match that was not
C8_Witness ==
    /\ pc = "returned"
    /\ tables # <<>>
    /\ \E n \in 1 .. Len(captured) : ~YieldsColumns(captured[n])

\* the names of the column definitions of a body, in declaration order
RECURSIVE ColumnNames(_)
ColumnNames(b) ==
    IF b = <<>> THEN <<>>
    ELSE (IF b[1].kind = "col" THEN <<b[1].name>> ELSE <<>>) \o ColumnNames(Tail(b))

WellFormedName(n) == n # <<>> /\ \A k \in 1 .. Len(n) : IsWord(n[k])

\* the text between the comma at k and the next comma (or the end), trimmed
SegmentAfter(text, k) ==
    LET later == {j \in (k + 1) .. Len(text) : text[j] = ","}
    IN  Trim(SubSeq(text, k + 1, IF later = {} THEN Len(text) ELSE Min(later) - 1))

\* a definition or clause whose name, if it has one, is written bare, and in
\* which no comma is followed by a bare word
PlainItem(item) ==
    /\ item.kind = "col" => FirstWord(item.text) = item.name
    /\ \A k \in 1 .. Len(item.text) :
          item.text[k] = "," => ~WellFormedName(FirstWord(SegmentAfter(item.text, k)))

PlainBody(b) == \A n \in 1 .. Len(b) : PlainItem(b[n])

\* C9 as stated: for every body made of column definitions and PRIMARY KEY /
\* FOREIGN KEY clauses the result is exactly the names of the column
\* definitions, in declaration order, each non-empty and made of alphanumeric
\* characters or _.
C9_ExactlyTheColumnNames ==
    pc = "returned" =>
       /\ columns = ColumnNames(body[1])
       /\ \A n \in 1 .. Len(columns) : WellFormedName(columns[n])

\* C9 amended: every returned name is non-empty and made of alphanumeric
\* characters or _; and the result is exactly the names of the column
\* definitions, in declaration order, when every column name is written bare
\* and no comma inside a definition or clause is followed by a bare word.
C9_ExactlyTheColumnNamesOfPlainBodies ==
    pc = "returned" =>
       /\ \A n \in 1 .. Len(columns) : WellFormedName(columns[n])
       /\ PlainBody(body[1]) => columns = ColumnNames(body[1])

\* a plain body with a comma inside a column's type and inside a key clause
C9_Witness ==
    /\ pc = "returned"
    /\ body[1] = <<ColId, ColP, KeyPk2>>
    /\ PlainBody(body[1])
    /\ columns = <<ColId.name, ColP.name>>

\* the dump with every CREATE TABLE name written bare
RECURSIVE Bare(_)
Bare(d) ==
    IF d = <<>> THEN <<>>
    ELSE <<IF d[1].kind = "create" THEN [d[1] EXCEPT !.style = "bare"] ELSE d[1]>>
         \o Bare(Tail(d))

\* C10: the tables returned for a dump are those returned for the same dump
\* with every CREATE TABLE name written bare: a double-quoted or back-quoted
\* name yields the same Table, name and columns, as the bare one.
C10_QuotingMakesNoDifference ==
    pc = "returned" => tables = TablesFrom(Render(Bare(dump)), 1, <<>>)

-----------------------------------------------------------------------------
(* The date range filter *)

\* the position of the first header equal to name, found by walking the list
RECURSIVE FirstOccurrence(_, _, _)
FirstOccurrence(hs, name, k) ==
    IF k > Len(hs) THEN 0
    ELSE IF hs[k] = name THEN k
    ELSE FirstOccurrence(hs, name, k + 1)

\* the row has a value in column k, that value is recognized as a date, and
\* the date lies in the range, both ends included
InRange(row, k, f) ==
    /\ Len(row) >= k
    /\ parse_date_value(row[k]).some
    /\ f.start_date <= parse_date_value(row[k]).days
    /\ parse_date_value(row[k]).days <= f.end_date

\* the rows among the first n of rs that are in range, in input order
RECURSIVE RowsInRange(_, _, _, _)
RowsInRange(rs, n, k, f) ==
    IF n = 0 THEN <<>>
    ELSE IF InRange(rs[n], k, f)
         THEN Append(RowsInRange(rs, n - 1, k, f), rs[n])
         ELSE RowsInRange(rs, n - 1, k, f)

\* C11: when the filter column is in the header, at first position k, the
\* rows kept so far are exactly the rows seen so far that have a k-th value
\* recognized as a date within [start_date, end_date], unmodified and in
\* input order; the call returns Ok with those rows of the whole input.
C11_RowsInRangeInOrder ==
    FirstOccurrence(headers, filter.column_name, 1) # 0 =>
        LET k == FirstOccurrence(headers, filter.column_name, 1)
        IN  /\ pc = "filter" => filtered = RowsInRange(input_rows, row_index - 1, k, filter)
            /\ pc = "returned" =>
                  /\ filter_result.kind = "Ok"
                  /\ filter_result.rows = RowsInRange(input_rows, Len(input_rows), k, filter)

\* the spec's example: of the rows of 10 January and 20 February, the filter
\* of January returns the first
C11_Witness ==
    /\ pc = "returned"
    /\ headers = <<NameId, NameCreatedAt>>
    /\ input_rows = ExampleFilterRows
    /\ filter = FilterJanuary
    /\ filter_result = [kind |-> "Ok", rows |-> << <<<<"1">>, Cell10Jan>> >>]

\* C12: when the filter's column name is not in the header list the call
\* fails with the column-not-found error and returns no rows, whatever the
\* rows are: no row is ever looked at or kept.
C12_MissingColumnFails ==
    (\A k \in 1 .. Len(headers) : headers[k] # filter.column_name) =>
        /\ pc \in {"position", "returned"}
        /\ filtered = <<>>
        /\ pc = "returned" =>
              /\ filter_result.kind = "Err"
              /\ filter_result.error = "column not found"
              /\ "rows" \notin DOMAIN filter_result

\* the call failed on rows that lie in the range
C12_Witness ==
    /\ pc = "returned"
    /\ headers = <<NameId>>
    /\ input_rows = ExampleFilterRows
    /\ filter_result.kind = "Err"

-----------------------------------------------------------------------------
(* The construction of the date filter *)

\* the day a YYYY-MM-DD argument of the model's command lines names
DayOfArg(a) ==
    CASE a = Arg1Jan -> SomeDate(DaysFromCivil(2024, 1, 1))
      [] a = Arg31Jan -> SomeDate(DaysFromCivil(2024, 1, 31))
      [] a = Arg20Feb -> SomeDate(DaysFromCivil(2024, 2, 20))
      [] OTHER -> NoDate

\* the arguments after the flag, when there is a flag
AfterFlag(as) ==
    IF \E k \in 1 .. Len(as) : as[k] = kwDateFilter
    THEN SubSeq(as, 1 + Min({k \in 1 .. Len(as) : as[k] = kwDateFilter}), Len(as))
    ELSE <<>>

\* the command line gives a start date later than its end date, or later
\* than the current date when it gives no end date
GivenStartLaterThanEnd ==
    LET given == AfterFlag(args)
    IN  /\ Len(given) >= 2
        /\ DayOfArg(given[2]).some
        /\ IF Len(given) >= 3
           THEN DayOfArg(given[3]).some /\ DayOfArg(given[2]).days > DayOfArg(given[3]).days
           ELSE DayOfArg(given[2]).days > today

\* C13: every DateFilter that is returned has start_date <= end_date, and a
\* command line whose start date is later than its end date (or than the
\* current date when it has no end date) gets an error and no DateFilter.
C13_StartNotAfterEnd ==
    pc = "returned" =>
        /\ date_filter.kind = "Some" =>
              date_filter.filter.start_date <= date_filter.filter.end_date
        /\ GivenStartLaterThanEnd =>
              date_filter.kind = "Err" /\ "filter" \notin DOMAIN date_filter

\* a start date after the current date, no end date given: rejected
C13_Witness ==
    /\ pc = "returned"
    /\ args = <<ArgProgram, ArgSqlFile, kwDateFilter, NameCreatedAt, Arg20Feb>>
    /\ today = DaysFromCivil(2024, 1, 31)
    /\ date_filter = [kind |-> "Err", error |-> "start after end"]

-----------------------------------------------------------------------------
(* The date recognizer *)

\* what the value was written from
Written(v) == CHOOSE w \in WrittenDates : RenderDate(w) = v

\* the calendar has the day d of month m of year y
RealDate(y, m, d) ==
    /\ m \in 1 .. 12
    /\ d >= 1
    /\ d <= (IF m \in {4, 6, 9, 11} THEN 30
             ELSE IF m # 2 THEN 31
             ELSE IF y % 4 = 0 /\ (y % 100 # 0 \/ y % 400 = 0) THEN 29 ELSE 28)

DateOf(y, m, d) == IF RealDate(y, m, d) THEN SomeDate(DaysFromCivil(y, m, d)) ELSE NoDate

\* C14: the attempts are tried in the order timestamp with offset, date and
\* time, date only (YYYY-MM-DD, then MM/DD/YYYY, then DD/MM/YYYY), integer
\* epoch, and the first that succeeds gives the date: a value written in one
\* of these notations is recognized by the attempt for that notation as the
\* date it was written from, a slash date that can be read both ways is read
\* month first, and a value in no notation gives no date.
C14_FirstStrategyInOrder ==
    pc = "returned" =>
        LET w == Written(value)
        IN  CASE w.kind = "offset" ->
                   /\ date = DateOf(w.y, w.m, w.d)
                   /\ date.some => strategy = "rfc3339"
              [] w.kind = "datetime" ->
                   /\ date = DateOf(w.y, w.m, w.d)
                   /\ date.some => strategy = "datetime"
              [] w.kind = "iso" ->
                   /\ date = DateOf(w.y, w.m, w.d)
                   /\ date.some => strategy = "date" /\ format = 1
              [] w.kind = "slash" ->
                   IF RealDate(w.y, w.a, w.b)
                   THEN date = DateOf(w.y, w.a, w.b) /\ strategy = "date" /\ format = 6
                   ELSE /\ date = DateOf(w.y, w.b, w.a)
                        /\ date.some => strategy = "date" /\ format = 7
              [] w.kind = "int" ->
                   /\ date.some => strategy \in {"millis", "seconds"}
                   /\ ~date.some => strategy = "none"
              [] OTHER -> date = NoDate /\ strategy = "none"

\* 03/04/2024 is recognized as the fourth of March
C14_Witness ==
    /\ pc = "returned"
    /\ value = <<"0","3","/","0","4","/","2","0","2","4">>
    /\ date = SomeDate(DaysFromCivil(2024, 3, 4))
    /\ strategy = "date"

\* the modelled integers for which the day of n / 1000 seconds is not a
\* date NaiveDate can hold and the day of n seconds is
RetryReturnsADate ==
    {w \in WrittenIntegers :
        /\ parse_i64(w.text).ok
        /\ ~from_timestamp(DivThousand(parse_i64(w.text))).some
        /\ from_timestamp(parse_i64(w.text)).some}

\* C18: a string that is a 64-bit integer n and matches no date format is
\* recognized as the day of n / 1000 epoch seconds when NaiveDate can hold
\* it and otherwise as the day of n epoch seconds when NaiveDate can hold
\* that; and the retry is effective: for some n it is the day of n seconds
\* that is returned.
C18_SecondsRetryEffective ==
    /\ (pc = "returned" /\ Written(value).kind = "int") =>
          date = IF Written(value).millis.some
                 THEN Written(value).millis
                 ELSE Written(value).seconds
    /\ RetryReturnsADate # {}

-----------------------------------------------------------------------------
(* The run over all tables *)

\* C15: the tables of a dump map to pairwise distinct output files, so in no
\* interleaving do two of the per-table closures create or write the same
\* file.
C15_DistinctDestinations ==
    \A a, b \in 1 .. Len(tasks) :
        (a # b /\ tasks[a].pc \in {"write", "done"} /\ tasks[a].out # "None"
               /\ tasks[b].pc \in {"write", "done"} /\ tasks[b].out # "None") =>
            Filename(tables[a].name) # Filename(tables[b].name)

\* the filter column is missing from the header of table t of the run
LacksFilterColumn(t) ==
    /\ run_filter.kind = "Some"
    /\ \A k \in 1 .. Len(tables[t].columns) :
          tables[t].columns[k] # run_filter.filter.column_name

\* the dump without the tables that were written without the filter column
RECURSIVE WithoutLacking(_)
WithoutLacking(d) ==
    IF d = <<>> THEN <<>>
    ELSE (IF \E k \in 1 .. Len(d[1].columns) :
                d[1].columns[k] = run_filter.filter.column_name
          THEN <<d[1]>> ELSE <<>>) \o WithoutLacking(Tail(d))

\* the file of table t after a run on the text alone: the header and the rows
\* of the table that the filter keeps, no file when it keeps none
FileOnItsOwn(text, t) ==
    LET FileOf(rs) ==
            LET kept == apply_date_filter(tables[t].columns, rs, run_filter.filter)
            IN  IF kept.rows = <<>> THEN NoFile
                ELSE [exists |-> TRUE, records |-> CsvRecords(tables[t].columns, kept.rows),
                      creators |-> {t}]
    IN  CHOOSE file \in {FileOf(rs) : rs \in {extract_insert_values(text, tables[t].name)}} :
            TRUE

\* no other table of the run has the file name of table t
OwnDestination(t) ==
    \A u \in 1 .. Len(tables) :
        u # t => Filename(tables[u].name) # Filename(tables[t].name)

\* C16: in a run with a date filter, a table whose header lacks the filter
\* column never creates a file and its closure returns None; every table
\* whose header has the column (and whose file name is its own) ends with
\* the file it has after a run on the dump without the tables that lack the
\* column; and the run returns Ok: in every interleaving of the closures.
C16_MissingColumnIsolated ==
    (run_filter.kind = "Some" /\ pc \in {"par_iter", "complete"}
        /\ \E a \in 1 .. Len(tables) : LacksFilterColumn(a)) =>
        /\ \A a \in 1 .. Len(tables) :
              LacksFilterColumn(a) =>
                 /\ tasks[a].out \in {"running", "None"}
                 /\ \A f \in DOMAIN files : a \notin files[f].creators
        /\ pc = "complete" =>
              /\ exit = "Ok"
              /\ \A b \in 1 .. Len(tables) :
                    (~LacksFilterColumn(b) /\ OwnDestination(b)) =>
                        files[Filename(tables[b].name)]
                            = FileOnItsOwn(RenderRun(WithoutLacking(dump)), b)

\* the run over a (no createdAt) and b is complete: b.csv holds the header
\* and the row of January, no a.csv exists
C16_Witness ==
    /\ pc = "complete"
    /\ dump = <<RunTableA, RunTableB>>
    /\ run_filter.kind = "Some"
    /\ exit = "Ok"
    /\ ~files[Filename(RunTableA.name)].exists
    /\ files[Filename(RunTableB.name)].records
          = <<RunTableB.columns, ExampleFilterRows[1]>>
    /\ csv_files = <<Filename(RunTableB.name)>>

=============================================================================
